---------------------------- MODULE Spec2Model ----------------------------
(***************************************************************************)
(* PostgreSQL ingestion subsystem of fondamental-analysis:                 *)
(*   src/data_savers/postgres_saver.py   (PostgresDataSaver)               *)
(*   src/data_backups/postgres_backup.py (PostgresBackupService)           *)
(*                                                                         *)
(* The store is modelled as a catalog of committed tables (db); a         *)
(* connection sees it together with the uncommitted changes of its own     *)
(* transaction.  One client issues the public operations one after the     *)
(* other (the core makes synchronous, blocking calls).  Under Spec every    *)
(* public operation is one step; under SpecSteps save_data is taken         *)
(* statement by statement, so that a reader on a second connection can     *)
(* look at the committed state between any two of them; under SpecPair two  *)
(* savers run one save_data each, statement by statement and interleaved.   *)
(***************************************************************************)
EXTENDS Integers, Sequences, FiniteSets, TLC

VARIABLES
    db,      \* committed catalog of the schema: table name -> [cols, rows]
    saver,   \* the PostgresDataSaver: its connection and transaction, and the
             \* position, uncommitted catalog and locals of a running save_data
    bconn,   \* the client's PostgresBackupService: _connection, "open" | "closed"
    btx,     \* its transaction: "idle" | "active" | "aborted"
    now,     \* datetime.now(timezone.utc): the index of an instant
    call,    \* the public operation running or just returned, with its result
    seen,    \* what a reader on another connection observed during the save
    calls,   \* public operations called so far
    ledger,  \* successful backup_data(TName) calls and the rows they found
    pair,    \* two more PostgresDataSaver, each on a connection of its own and
             \* each inside one save_data, with the locks its transaction holds
    cast,    \* a call of auto_cast_to_sql: the dataset given and what came back
    column,  \* a call of clean_column_name: the header given and the name returned
    csv      \* a CSVDataSaver: the files of its output directory and the position
             \* of its save_data

vars == <<db, saver, bconn, btx, now, call, seen, calls, ledger, pair, cast, column, csv>>

-----------------------------------------------------------------------------
(* Bounds of the model *)

MaxTime == 1            \* the clock takes the values 0..MaxTime
MaxCalls == 2           \* public operations the client calls

-----------------------------------------------------------------------------
(* Table names.  A name is the sequence of the pieces it is formatted from,  *)
(* so that f"{source}_backup", f"temp_{destination}_{ts}" and                *)
(* f"old_{temp_table}" are computed as the code computes them.               *)

TName == <<"t">>
VName == <<"v">>

BackupName(source) == source \o <<"_backup">>

\* (a temp table named after the second alone: f"temp_{ts}")
TempNameOfSecond(destination, ts) == <<"temp_", ToString(ts)>>

TempName(destination, ts) == <<"temp_">> \o destination \o <<"_", ToString(ts)>>

OldName(temp_table) == <<"old_">> \o temp_table

\* table_name NOT LIKE '%_backup' is false exactly for the names built with the suffix
LikeBackup(name) == Len(name) > 1 /\ name[Len(name)] = "_backup"

Sources == {TName, VName}

-----------------------------------------------------------------------------
(* Values, dataframes and PostgreSQL column types *)

Null == [k |-> "null", v |-> ""]
IntV(s) == [k |-> "int", v |-> s]
TextV(s) == [k |-> "text", v |-> s]
TsV(n) == [k |-> "ts", v |-> ToString(n)]

Col(name, dtype) == [name |-> name, dtype |-> dtype]

DA == [cols |-> <<Col("a", "int64")>>, rows |-> << <<IntV("1")>> >>]
DE == [cols |-> <<Col("a", "int64")>>, rows |-> << >>]
DX == [cols |-> <<Col("a", "int64"), Col("b", "object")>>,
       rows |-> << <<IntV("2"), TextV("x")>> >>]
DT == [cols |-> <<Col("a", "object")>>, rows |-> << <<TextV("x")>> >>]

Datasets == {DA, DE, DX, DT}

\* The calls of save_data and of save_with_backup the client makes
Saves == (Datasets \X {TName}) \cup ({DE} \X {BackupName(TName)})
BackedSaves == Datasets \X {TName}

ColNames(cols) == [i \in 1..Len(cols) |-> cols[i].name]
NameSet(cols) == {cols[i].name : i \in 1..Len(cols)}
ColIndex(cols, name) == CHOOSE i \in 1..Len(cols) : cols[i].name = name

map_pandas_to_postgres_type(pandas_type) ==
    IF pandas_type \in {"int64", "int32"} THEN "BIGINT"
    ELSE IF pandas_type \in {"float64", "float32"} THEN "DOUBLE PRECISION"
    ELSE IF pandas_type = "bool" THEN "BOOLEAN"
    ELSE IF pandas_type = "datetime64[ns]" THEN "TIMESTAMP"
    ELSE IF pandas_type \in {"object", "string"} THEN "TEXT"
    ELSE "TEXT"

PgCol(name, type, notnull) == [name |-> name, type |-> type, notnull |-> notnull]

\* _generate_table_columns_sql: one nullable column per dataframe column
generate_table_columns(data) ==
    [i \in 1..Len(data.cols) |->
        PgCol(data.cols[i].name, map_pandas_to_postgres_type(data.cols[i].dtype), FALSE)]


-----------------------------------------------------------------------------
(* The store: what PostgreSQL does with the statements the code sends *)

Digits == {"0", "1", "2"}

\* Can a value be assigned to a column of the given declared type?
Castable(type, val) ==
    \/ val.k = "null"
    \/ type \in {"BIGINT", "INTEGER"} /\ (val.k = "int" \/ (val.k = "text" /\ val.v \in Digits))
    \/ type = "TEXT"
    \/ type = "TIMESTAMPTZ" /\ val.k = "ts"

\* The value the column holds after the assignment (PostgreSQL's assignment cast)
AssignCast(type, val) ==
    IF val.k = "null" THEN Null
    ELSE IF type \in {"BIGINT", "INTEGER"} THEN IntV(val.v)
    ELSE IF type = "TEXT" THEN TextV(val.v)
    ELSE val

TableExists(cat, name) == name \in DOMAIN cat

CreateTable(cat, name, cols) == (name :> [cols |-> cols, rows |-> << >>]) @@ cat

DropTable(cat, name) == [n \in DOMAIN cat \ {name} |-> cat[n]]

RenameTable(cat, from, to) == (to :> cat[from]) @@ DropTable(cat, from)

\* ALTER TABLE ... ADD COLUMN: the column goes last, existing rows hold NULL in it
AddColumn(cat, name, col) ==
    [cat EXCEPT ![name] =
        [cols |-> Append(@.cols, col),
         rows |-> [i \in 1..Len(@.rows) |-> Append(@.rows[i], Null)]]]

\* (a store whose unnamed columns default to the empty string)
StoredRowBlank(tcols, dcols, row) ==
    [j \in 1..Len(tcols) |->
        IF tcols[j].name \in NameSet(dcols)
        THEN AssignCast(tcols[j].type, row[ColIndex(dcols, tcols[j].name)])
        ELSE TextV("")]

\* One row of an INSERT that names its columns: a named column takes the cast
\* value, every other column its default (NULL)
StoredRow(tcols, dcols, row) ==
    [j \in 1..Len(tcols) |->
        IF tcols[j].name \in NameSet(dcols)
        THEN AssignCast(tcols[j].type, row[ColIndex(dcols, tcols[j].name)])
        ELSE Null]

RowAccepted(tcols, dcols, row) ==
    \A j \in 1..Len(tcols) :
        IF tcols[j].name \in NameSet(dcols)
        THEN Castable(tcols[j].type, row[ColIndex(dcols, tcols[j].name)])
        ELSE ~tcols[j].notnull

\* INSERT INTO table (data.columns) VALUES (...), once per record
InsertAccepted(cat, name, data) ==
    /\ TableExists(cat, name)
    /\ NameSet(data.cols) \subseteq NameSet(cat[name].cols)
    /\ \A i \in 1..Len(data.rows) : RowAccepted(cat[name].cols, data.cols, data.rows[i])

InsertRows(cat, name, data) ==
    [cat EXCEPT ![name].rows =
        @ \o [i \in 1..Len(data.rows) |-> StoredRow(cat[name].cols, data.cols, data.rows[i])]]

-----------------------------------------------------------------------------
(* Connections and transactions (psycopg2, autocommit off).  A statement    *)
(* is answered "ok", rejected by the store ("reject": the transaction is    *)
(* aborted and every later statement of it fails), or the connection is     *)
(* lost while it runs ("dead": the server drops the transaction and         *)
(* psycopg2 marks the connection closed).                                   *)

Outcomes == {"ok", "reject", "dead"}

NoFault == [stage |-> "none", at |-> 0, kind |-> "ok"]

\* At most one failure of the store during one public operation: the statement
\* it hits, and whether the store rejects it or the connection is lost
FaultsOf(stage, steps) == [stage : {stage}, at : steps, kind : {"reject", "dead"}]

At(f, stage, i) == IF f.stage = stage /\ f.at = i THEN f.kind ELSE "ok"

Within(f, stage) == IF f.stage = stage THEN f ELSE NoFault

\* (a get_connection that opens a connection at every call)
GetConnectionAnew(conn, up) == IF up THEN "open" ELSE "none"

\* get_connection: reuse the open connection, else connect (up: the store answers)
GetConnection(conn, up) == IF conn = "open" \/ up THEN "open" ELSE conn

\* cursor.execute raises
Fails(conn, tx, o, accepted) == conn # "open" \/ tx = "aborted" \/ o # "ok" \/ ~accepted

ConnAfter(conn, o) == IF conn = "open" /\ o = "dead" THEN "closed" ELSE conn

TxAfter(conn, tx, o, accepted) ==
    IF ConnAfter(conn, o) # "open" THEN "idle"
    ELSE IF Fails(conn, tx, o, accepted) THEN "aborted"
    ELSE "active"

-----------------------------------------------------------------------------
(* The clock.  Instant i of the model stands for the i-th of these dates;   *)
(* year is datetime.year and week is datetime.isocalendar()[1].             *)

Instants ==
    << [date |-> "2024-01-01", year |-> "2024", week |-> "1"],
       [date |-> "2024-12-30", year |-> "2024", week |-> "1"],
       [date |-> "2025-01-06", year |-> "2025", week |-> "2"],
       [date |-> "2025-12-29", year |-> "2025", week |-> "1"] >>

current_year(ts) == Instants[ts + 1].year
current_week(ts) == Instants[ts + 1].week

-----------------------------------------------------------------------------
(* PostgresBackupService *)

BackupMetaCols ==
    << PgCol("backup_timestamp", "TIMESTAMPTZ", TRUE),
       PgCol("backup_year", "INTEGER", TRUE),
       PgCol("backup_week", "INTEGER", TRUE) >>

\* CREATE TABLE {backup} (LIKE {source} INCLUDING ALL, backup_timestamp ..., ...)
CreateBackupTable(cat, source) ==
    CreateTable(cat, BackupName(source), cat[source].cols \o BackupMetaCols)

\* (an existence check that always answers True)
table_exists_always(cat, name, failed) == TRUE

\* _table_exists (lines 207-226): a failed query is logged and answered False
table_exists(cat, name, failed) == ~failed /\ TableExists(cat, name)

\* _create_backup_table_if_not_exists, when its statements are accepted; the
\* store rejects CREATE TABLE (LIKE source) when there is no source
create_backup_table_if_not_exists(cat, source) ==
    IF table_exists(cat, BackupName(source), FALSE) \/ ~TableExists(cat, source) THEN cat
    ELSE CreateBackupTable(cat, source)

\* The rows SELECT *, %s, %s, %s FROM {source} yields
SnapshotRows(cat, source, ts) ==
    [i \in 1..Len(cat[source].rows) |->
        cat[source].rows[i] \o <<TsV(ts), IntV(current_year(ts)), IntV(current_week(ts))>>]

\* INSERT INTO {backup} SELECT ...: the expressions are assigned to the backup
\* table's columns by position; columns beyond them take their default (NULL)
SnapshotAccepted(cat, source, ts) ==
    LET bcols == cat[BackupName(source)].cols
        n == Len(cat[source].cols) + 3
    IN /\ TableExists(cat, source)
       /\ TableExists(cat, BackupName(source))
       /\ n <= Len(bcols)
       /\ \A i \in 1..Len(cat[source].rows) :
            \A j \in 1..Len(bcols) :
                IF j <= n THEN Castable(bcols[j].type, SnapshotRows(cat, source, ts)[i][j])
                ELSE ~bcols[j].notnull

\* (a backup that keeps only the latest snapshot)
execute_backup_replace(cat, source, ts) ==
    LET bcols == cat[BackupName(source)].cols
        n == Len(cat[source].cols) + 3
        snap == SnapshotRows(cat, source, ts)
    IN [cat EXCEPT ![BackupName(source)].rows =
            [i \in 1..Len(snap) |->
                [j \in 1..Len(bcols) |->
                    IF j <= n THEN AssignCast(bcols[j].type, snap[i][j]) ELSE Null]]]

\* _execute_backup_operation (lines 278-314), when its statement is accepted
execute_backup_operation(cat, source, ts) ==
    LET bcols == cat[BackupName(source)].cols
        n == Len(cat[source].cols) + 3
        snap == SnapshotRows(cat, source, ts)
    IN [cat EXCEPT ![BackupName(source)].rows =
            @ \o [i \in 1..Len(snap) |->
                    [j \in 1..Len(bcols) |->
                        IF j <= n THEN AssignCast(bcols[j].type, snap[i][j]) ELSE Null]]]


\* A fault of one statement of a backup: at = 0 is "none"
BackupFaults == {NoFault} \cup FaultsOf("backup", 1..7)

\* The conversion specifiers of a query text, and whether cursor.execute(query,
\* params) can format it: "%s" takes a parameter, "%%" is a literal percent sign,
\* any other specifier raises before anything is sent
EnsureListQuery == <<"%s", "%%">>
BackupAllListQuery == <<"%s", "%_">>

Formats(query, nparams) ==
    /\ \A i \in 1..Len(query) : query[i] \in {"%s", "%%"}
    /\ Cardinality({i \in 1..Len(query) : query[i] = "%s"}) = nparams

\* _ensure_backup_tables_exist (run by the constructor on a new connection):
\* a backup table for every table whose name is NOT LIKE '%_backup'
LacksBackup(cat) ==
    {n \in DOMAIN cat : ~LikeBackup(n) /\ ~TableExists(cat, BackupName(n))}

ensure_backup_tables_exist(cat, up, o) ==
    IF ~up THEN [cat |-> cat, raised |-> FALSE]
    ELSE IF o = "dead" THEN [cat |-> cat, raised |-> TRUE]
    ELSE IF o = "reject" \/ ~Formats(EnsureListQuery, 1) THEN [cat |-> cat, raised |-> FALSE]
    ELSE [cat |-> [m \in DOMAIN cat \cup {BackupName(n) : n \in LacksBackup(cat)} |->
                      IF m \in DOMAIN cat THEN cat[m]
                      ELSE LET src == CHOOSE n \in LacksBackup(cat) : BackupName(n) = m
                           IN [cols |-> cat[src].cols \o BackupMetaCols, rows |-> << >>]],
          raised |-> FALSE]

BackupResult(cat, conn, tx, res, msg) ==
    [cat |-> cat, conn |-> conn, tx |-> tx, res |-> res, msg |-> msg]

\* backup_data (lines 100-127).  Its statements: 1 _table_exists(source),
\* 2 _table_exists(backup), 3 CREATE TABLE, 4 and 5 CREATE INDEX,
\* 6 INSERT ... SELECT, 7 commit
backup_data(cat, conn, tx, source, ts, up, f) ==
    LET c1 == GetConnection(conn, up)
        tx1 == IF conn # "open" THEN "active" ELSE tx
        o1 == IF f.at = 1 THEN f.kind ELSE "ok"
        found == table_exists(cat, source, Fails(c1, tx1, o1, TRUE))
        hadBackup == table_exists(cat, BackupName(source), f.at = 2)
        cat2 == create_backup_table_if_not_exists(cat, source)
        accepted == (hadBackup \/ TableExists(cat, source)) /\ SnapshotAccepted(cat2, source, ts)
        injected == \/ f.at \in {2, 6}
                    \/ f.at \in {3, 4, 5} /\ ~hadBackup
                    \/ f.at = 7 /\ accepted
    IN IF c1 # "open" THEN BackupResult(cat, conn, tx, "False", "NoConnection")
       ELSE IF ~found
       THEN BackupResult(cat, ConnAfter(c1, o1), TxAfter(c1, tx1, o1, TRUE), "False", "NotFound")
       ELSE IF ~injected /\ accepted
       THEN BackupResult(execute_backup_operation(cat2, source, ts), "open", "idle", "True", "none")
       ELSE IF injected /\ f.kind = "dead"
       THEN BackupResult(cat, "closed", "idle", "raised", "Error")
       ELSE BackupResult(cat, "open", "idle", "False", "Error")

-----------------------------------------------------------------------------
(* Type coercion: src/helpers/pd_sql_conversion.py.  A string is the        *)
(* sequence of its characters, a number the sign, the significant decimal   *)
(* digits and the power of ten of what float() reads, so that the           *)
(* normalization and the parse are computed character by character.         *)

Digit == {"0", "1", "2", "3", "4", "5", "6", "7", "8", "9"}

\* The values of a cell: pd.NA / None / NaN, a str, and what the parsers emit
NA == [k |-> "na", v |-> << >>, neg |-> FALSE, exp |-> 0]
Str(chars) == [k |-> "str", v |-> chars, neg |-> FALSE, exp |-> 0]
Bool(b) == [k |-> "bool", v |-> <<IF b THEN "True" ELSE "False">>, neg |-> FALSE, exp |-> 0]
Number(kind, n) == [k |-> kind, v |-> n.digits, neg |-> n.neg, exp |-> n.exp]

RECURSIVE LStrip(_, _)
LStrip(s, cs) == IF s # << >> /\ Head(s) \in cs THEN LStrip(Tail(s), cs) ELSE s

RECURSIVE RStrip(_, _)
RStrip(s, cs) ==
    IF s # << >> /\ s[Len(s)] \in cs THEN RStrip(SubSeq(s, 1, Len(s) - 1), cs) ELSE s

\* str.strip()
Strip(s) == RStrip(LStrip(s, {" "}), {" "})

Count(s, c) == Cardinality({i \in DOMAIN s : s[i] = c})

\* str.rfind(c): the last position of c, -1 when there is none
RFind(s, c) ==
    IF Count(s, c) = 0 THEN -1
    ELSE (CHOOSE i \in DOMAIN s : s[i] = c /\ \A j \in DOMAIN s : s[j] = c => j <= i) - 1

Without(s, c) == SelectSeq(s, LAMBDA x : x # c)

Replace(s, c, d) == [i \in DOMAIN s |-> IF s[i] = c THEN d ELSE s[i]]

AllDigits(s) == \A i \in DOMAIN s : s[i] \in Digit

\* reSub(r"[^\d\-\.,eE%+]", "", s), line 25
KeepNumberCharacters(s) ==
    SelectSeq(s, LAMBDA c : c \in Digit \cup {"-", ".", ",", "e", "E", "%", "+"})

\* reMatch(r"^-?\d+,\d+$", s), line 43
MatchesCommaDecimal(s) ==
    LET t == IF s # << >> /\ Head(s) = "-" THEN Tail(s) ELSE s
        k == RFind(t, ",") + 1
    IN /\ Count(t, ",") = 1
       /\ 1 < k /\ k < Len(t)
       /\ AllDigits(Without(t, ","))

\* s[:-1] when s.endswith('%'), lines 27-29
DropPercent(s) == IF s # << >> /\ s[Len(s)] = "%" THEN SubSeq(s, 1, Len(s) - 1) ELSE s

\* (every comma taken as grouping: s.replace(",", ""))
SeparatorsCommaGrouping(s) == Without(s, ",")

\* The thousands / decimal separators, lines 31-46
Separators(s) ==
    IF Count(s, ",") > 0 /\ Count(s, ".") > 0
    THEN IF RFind(s, ",") > RFind(s, ".")
         THEN Replace(Without(s, "."), ",", ".")
         ELSE Without(s, ",")
    ELSE IF Count(s, ",") > 0
    THEN IF Count(s, ",") = 1 /\ MatchesCommaDecimal(s)
         THEN Replace(s, ",", ".")
         ELSE Without(s, ",")
    ELSE s

\* return ("-" + s) if s == "-" else s, line 52
LoneMinus(s) == IF s = <<"-">> THEN <<"-", "-">> ELSE s

\* _normalize_number_string (lines 15-52) of a str
normalize_number_string(chars) ==
    IF Strip(chars) = << >> THEN << >>
    ELSE LoneMinus(LStrip(Separators(DropPercent(KeepNumberCharacters(Strip(chars)))), {"+"}))

\* The value of a sequence of decimal digits
RECURSIVE DigitsValue(_)
DigitsValue(ds) ==
    IF ds = << >> THEN 0
    ELSE 10 * DigitsValue(SubSeq(ds, 1, Len(ds) - 1))
         + (CHOOSE d \in 0..9 : ToString(d) = ds[Len(ds)])

RECURSIVE Power10(_)
Power10(k) == IF k = 0 THEN 1 ELSE 10 * Power10(k - 1)

NaN == [nan |-> TRUE, neg |-> FALSE, digits |-> << >>, exp |-> 0]

\* A number in canonical form: no leading and no trailing zero among its digits
Canonical(neg, digits, exp) ==
    LET lead == LStrip(digits, {"0"})
        sig == RStrip(lead, {"0"})
    IN IF sig = << >> THEN [nan |-> FALSE, neg |-> FALSE, digits |-> << >>, exp |-> 0]
       ELSE [nan |-> FALSE, neg |-> neg, digits |-> sig, exp |-> exp + (Len(lead) - Len(sig))]

\* The exponent: nothing, or [sign] digits with at least one digit
ExponentOk(hasExp, etext) ==
    hasExp => LET edigits == IF etext # << >> /\ Head(etext) \in {"-", "+"}
                             THEN Tail(etext) ELSE etext
              IN edigits # << >> /\ AllDigits(edigits)

ExponentValue(hasExp, etext) ==
    IF ~hasExp THEN 0
    ELSE IF Head(etext) = "-" THEN 0 - DigitsValue(Tail(etext))
    ELSE IF Head(etext) = "+" THEN DigitsValue(Tail(etext))
    ELSE DigitsValue(etext)

\* The mantissa: digits [. digits] with at least one digit
ReadMantissa(neg, whole, part, dots, hasExp, etext) ==
    IF dots <= 1 /\ AllDigits(whole) /\ AllDigits(part) /\ whole \o part # << >>
       /\ ExponentOk(hasExp, etext)
    THEN Canonical(neg, whole \o part, ExponentValue(hasExp, etext) - Len(part))
    ELSE NaN

SplitMantissa(neg, mant, dot, hasExp, etext) ==
    ReadMantissa(neg,
                 IF dot = 0 THEN mant ELSE SubSeq(mant, 1, dot - 1),
                 IF dot = 0 THEN << >> ELSE SubSeq(mant, dot + 1, Len(mant)),
                 Count(mant, "."), hasExp, etext)

SplitExponent(neg, body, epos) ==
    SplitMantissa(neg, SubSeq(body, 1, epos - 1), RFind(SubSeq(body, 1, epos - 1), ".") + 1,
                  epos <= Len(body), SubSeq(body, epos + 1, Len(body)))

\* The position of the first e or E, Len + 1 when there is none
ExponentAt(body) ==
    IF \A i \in DOMAIN body : body[i] \notin {"e", "E"} THEN Len(body) + 1
    ELSE CHOOSE i \in DOMAIN body :
             body[i] \in {"e", "E"} /\ \A j \in 1..(i - 1) : body[j] \notin {"e", "E"}

ParseUnsigned(neg, body) == SplitExponent(neg, body, ExponentAt(body))

\* float(s), line 62, for a string of the characters the normalization keeps:
\* [sign] digits [. digits] [e [sign] digits], with a digit before the exponent
ParseFloat(s) ==
    IF s # << >> /\ Head(s) \in {"-", "+"}
    THEN ParseUnsigned(Head(s) = "-", Tail(s))
    ELSE ParseUnsigned(FALSE, s)

\* _parse_numeric_value (lines 55-68).  Decimal(s), the second attempt, reads
\* no string of these characters that float(s) does not read
parse_numeric_value(val) ==
    IF val.k = "na" THEN NaN
    ELSE IF normalize_number_string(val.v) = << >> THEN NaN
    ELSE ParseFloat(normalize_number_string(val.v))

\* (numeric - np.round(numeric)).abs() > 1e-9, lines 77-78, for numbers of at
\* most 9 significant digits
FractionExceedsTolerance(n) ==
    /\ ~n.nan
    /\ n.exp < 0
    /\ IF n.exp > -9 THEN TRUE
       ELSE IF n.exp = -9 THEN DigitsValue(n.digits) \notin {1, Power10(9) - 1}
       ELSE IF n.exp >= -18 THEN DigitsValue(n.digits) > Power10(0 - n.exp - 9)
       ELSE FALSE

\* The labels of the positions that satisfy a mask, as list(x[mask].index) gives them
RECURSIVE LabelsWhere(_, _, _)
LabelsWhere(index, mask, p) ==
    IF p > Len(index) THEN << >>
    ELSE (IF mask[p] THEN <<index[p]>> ELSE << >>) \o LabelsWhere(index, mask, p + 1)

\* _parse_integer_series (lines 71-85), for values inside the Int64 range
parse_integer_series(index, values) ==
    LET numeric == [p \in DOMAIN values |-> parse_numeric_value(values[p])]
        fails == LabelsWhere(index, [p \in DOMAIN values |-> FractionExceedsTolerance(numeric[p])], 1)
        out == [p \in DOMAIN values |->
                   IF ~numeric[p].nan /\ numeric[p].exp >= 0
                   THEN Number("int", numeric[p]) ELSE NA]
    IN [raised |-> FALSE, out |-> out, fails |-> fails]

\* _parse_numeric_series (lines 88-92)
parse_numeric_series(index, values) ==
    LET numeric == [p \in DOMAIN values |-> parse_numeric_value(values[p])]
        fails == LabelsWhere(index, [p \in DOMAIN values |-> numeric[p].nan /\ values[p].k # "na"], 1)
        out == [p \in DOMAIN values |->
                   IF numeric[p].nan THEN NA ELSE Number("float", numeric[p])]
    IN [raised |-> FALSE, out |-> out, fails |-> fails]

\* str.lower()
Lower(s) ==
    LET upper == <<"A", "B", "C", "D", "E", "F", "G", "H", "I", "J", "K", "L", "M",
                   "N", "O", "P", "Q", "R", "S", "T", "U", "V", "W", "X", "Y", "Z">>
        lower == <<"a", "b", "c", "d", "e", "f", "g", "h", "i", "j", "k", "l", "m",
                   "n", "o", "p", "q", "r", "s", "t", "u", "v", "w", "x", "y", "z">>
    IN [i \in DOMAIN s |->
           IF \E j \in DOMAIN upper : upper[j] = s[i]
           THEN lower[CHOOSE j \in DOMAIN upper : upper[j] = s[i]]
           ELSE s[i]]

map_true == {<<"t", "r", "u", "e">>, <<"t">>, <<"y", "e", "s">>, <<"y">>, <<"1">>, <<"o", "n">>}
map_false == {<<"f", "a", "l", "s", "e">>, <<"f">>, <<"n", "o">>, <<"n">>, <<"0">>, <<"o", "f", "f">>}

\* out.iat[i] = x: i is taken as a POSITION, counted from the end when it is
\* negative; IndexError when there is no such position
IatPosition(i, n) == IF 0 <= i /\ i < n THEN i + 1 ELSE IF 0 - n <= i /\ i < 0 THEN i + n + 1 ELSE 0

\* One turn of the loop of _parse_boolean_series (lines 106-117) on the item
\* (i, v) of s.items(), where i is the LABEL of the row
BooleanItem(acc, i, v) ==
    LET at == IatPosition(i, Len(acc.out))
        st == Lower(Strip(v.v))
        x == IF v.k = "na" THEN NA
             ELSE IF st \in map_true THEN Bool(TRUE)
             ELSE IF st \in map_false THEN Bool(FALSE)
             ELSE NA
        failed == v.k # "na" /\ st \notin map_true /\ st \notin map_false
        fails == IF failed THEN Append(acc.fails, i) ELSE acc.fails
    IN IF acc.raised THEN acc
       ELSE IF at = 0 THEN [acc EXCEPT !.raised = TRUE, !.fails = fails]
       ELSE [acc EXCEPT !.out[at] = x, !.fails = fails]

RECURSIVE BooleanLoop(_, _, _, _)
BooleanLoop(acc, index, values, p) ==
    IF p > Len(values) THEN acc
    ELSE BooleanLoop(BooleanItem(acc, index[p], values[p]), index, values, p + 1)

\* _parse_boolean_series (lines 101-118)
parse_boolean_series(index, values) ==
    BooleanLoop([raised |-> FALSE, out |-> [p \in DOMAIN values |-> NA], fails |-> << >>],
                index, values, 1)

\* The branch of auto_cast_to_sql for one column of the target table (lines
\* 181-276); the text types (line 234) and the unknown types (line 275) keep
\* the values as they are
CastColumn(data_type, index, values) ==
    IF data_type \in {"integer", "bigint", "smallint", "serial", "bigserial"}
    THEN parse_integer_series(index, values)
    ELSE IF data_type \in {"numeric", "decimal", "real", "double precision"}
    THEN parse_numeric_series(index, values)
    ELSE IF data_type = "boolean" THEN parse_boolean_series(index, values)
    ELSE [raised |-> FALSE, out |-> values, fails |-> << >>]

\* The loop of auto_cast_to_sql over table_schema.items() (lines 172-276): a
\* column missing from the dataset is skipped, an exception leaves the loop
RECURSIVE CastLoop(_, _, _)
CastLoop(acc, table_schema, c) ==
    IF c > Len(table_schema) \/ acc.raised THEN acc
    ELSE LET colname == table_schema[c].column_name
             parsed == CastColumn(table_schema[c].data_type, acc.df.index, acc.df.data[colname])
         IN IF \A j \in DOMAIN acc.df.columns : acc.df.columns[j] # colname
            THEN CastLoop(acc, table_schema, c + 1)
            ELSE CastLoop([raised |-> parsed.raised,
                           df |-> IF parsed.raised THEN acc.df
                                  ELSE [acc.df EXCEPT !.data[colname] = parsed.out],
                           fails |-> acc.fails \o <<[column |-> colname, rows |-> parsed.fails]>>],
                          table_schema, c + 1)

\* auto_cast_to_sql (lines 142-284): read is what _get_postgresql_table_schema
\* gave, an exception or the columns of the table; fails holds, per processed
\* column, the row labels its parser reported
auto_cast_to_sql(read, df) ==
    IF read.raised \/ read.table_schema = << >>
    THEN [raised |-> FALSE, df |-> df, fails |-> << >>]
    ELSE CastLoop([raised |-> FALSE, df |-> df, fails |-> << >>], read.table_schema, 1)

\* The datasets of one column "a" have at most MaxRows rows
MaxRows == 2

\* The strings a cell may hold
Samples ==
    {<<"1">>, <<"0">>, <<"1", ".", "5">>, <<"1", ",", "5">>,
     <<"1", ",", "2", "3", "4">>, <<"1", ".", "2", "3", "4", ",", "5", "6">>,
     <<"1", ",", "2", "3", "4", ".", "5">>,
     <<"a", "b", "c">>, <<"1", "2", "a", "b", "c">>,
     <<"y", "e", "s">>, <<" ", "T", "R", "U", "E", " ">>, <<"n", "o">>,
     << >>, <<"-">>, <<"1", "e", "-", "9">>, <<"5", "%">>}

\* What _get_postgresql_table_schema may give (lines 121-139): an exception,
\* no column (the table is not there), or the columns of the table
SchemaReads ==
    {[raised |-> TRUE, table_schema |-> << >>], [raised |-> FALSE, table_schema |-> << >>]}
    \cup {[raised |-> FALSE, table_schema |-> <<[column_name |-> "a", data_type |-> t]>>] :
             t \in {"integer", "double precision", "boolean", "text", "uuid"}}
    \cup {[raised |-> FALSE,
           table_schema |-> <<[column_name |-> "b", data_type |-> "integer"],
                              [column_name |-> "a", data_type |-> "text"]>>],
          [raised |-> FALSE,
           table_schema |-> <<[column_name |-> "id", data_type |-> "integer"],
                              [column_name |-> "price", data_type |-> "double precision"],
                              [column_name |-> "active", data_type |-> "boolean"]>>]}

NoCast ==
    [status |-> "idle",
     df |-> [index |-> << >>, columns |-> << >>, data |-> << >>],
     read |-> [raised |-> FALSE, table_schema |-> << >>],
     raised |-> FALSE,
     out |-> [index |-> << >>, columns |-> << >>, data |-> << >>],
     fails |-> << >>]

-----------------------------------------------------------------------------
(* helpers/data_validator.py: clean_column_name.  A name is the sequence of *)
(* its characters.                                                           *)

\* POSTGRES_RESERVED (lines 10-23)
POSTGRES_RESERVED ==
    {<<"a", "l", "l">>,
     <<"a", "n", "a", "l", "y", "s", "e">>,
     <<"a", "n", "a", "l", "y", "z", "e">>,
     <<"a", "n", "d">>,
     <<"a", "n", "y">>,
     <<"a", "r", "r", "a", "y">>,
     <<"a", "s">>,
     <<"a", "s", "c">>,
     <<"a", "s", "y", "m", "m", "e", "t", "r", "i", "c">>,
     <<"a", "u", "t", "h", "o", "r", "i", "z", "a", "t", "i", "o", "n">>,
     <<"b", "e", "t", "w", "e", "e", "n">>,
     <<"b", "i", "n", "a", "r", "y">>,
     <<"b", "o", "t", "h">>,
     <<"c", "a", "s", "e">>,
     <<"c", "a", "s", "t">>,
     <<"c", "h", "e", "c", "k">>,
     <<"c", "o", "l", "l", "a", "t", "e">>,
     <<"c", "o", "l", "u", "m", "n">>,
     <<"c", "o", "n", "s", "t", "r", "a", "i", "n", "t">>,
     <<"c", "r", "e", "a", "t", "e">>,
     <<"c", "r", "o", "s", "s">>,
     <<"c", "u", "r", "r", "e", "n", "t", "_", "d", "a", "t", "e">>,
     <<"c", "u", "r", "r", "e", "n", "t", "_", "r", "o", "l", "e">>,
     <<"c", "u", "r", "r", "e", "n", "t", "_", "t", "i", "m", "e">>,
     <<"c", "u", "r", "r", "e", "n", "t", "_", "t", "i", "m", "e", "s", "t", "a", "m", "p">>,
     <<"c", "u", "r", "r", "e", "n", "t", "_", "u", "s", "e", "r">>,
     <<"d", "e", "f", "a", "u", "l", "t">>,
     <<"d", "e", "f", "e", "r", "r", "a", "b", "l", "e">>,
     <<"d", "e", "s", "c">>,
     <<"d", "i", "s", "t", "i", "n", "c", "t">>,
     <<"d", "o">>,
     <<"e", "l", "s", "e">>,
     <<"e", "n", "d">>,
     <<"e", "x", "c", "e", "p", "t">>,
     <<"f", "a", "l", "s", "e">>,
     <<"f", "o", "r">>,
     <<"f", "o", "r", "e", "i", "g", "n">>,
     <<"f", "r", "o", "m">>,
     <<"g", "r", "a", "n", "t">>,
     <<"g", "r", "o", "u", "p">>,
     <<"h", "a", "v", "i", "n", "g">>,
     <<"i", "n">>,
     <<"i", "n", "i", "t", "i", "a", "l", "l", "y">>,
     <<"i", "n", "t", "e", "r", "s", "e", "c", "t">>,
     <<"i", "n", "t", "o">>,
     <<"j", "o", "i", "n">>,
     <<"l", "e", "a", "d", "i", "n", "g">>,
     <<"l", "e", "f", "t">>,
     <<"l", "i", "k", "e">>,
     <<"l", "i", "m", "i", "t">>,
     <<"l", "o", "c", "a", "l", "t", "i", "m", "e">>,
     <<"l", "o", "c", "a", "l", "t", "i", "m", "e", "s", "t", "a", "m", "p">>,
     <<"n", "a", "t", "u", "r", "a", "l">>,
     <<"n", "o", "t">>,
     <<"n", "u", "l", "l">>,
     <<"o", "f", "f", "s", "e", "t">>,
     <<"o", "n">>,
     <<"o", "n", "l", "y">>,
     <<"o", "r">>,
     <<"o", "r", "d", "e", "r">>,
     <<"o", "u", "t", "e", "r">>,
     <<"o", "v", "e", "r", "l", "a", "p", "s">>,
     <<"p", "l", "a", "c", "i", "n", "g">>,
     <<"p", "r", "i", "m", "a", "r", "y">>,
     <<"r", "e", "f", "e", "r", "e", "n", "c", "e", "s">>,
     <<"r", "i", "g", "h", "t">>,
     <<"s", "e", "l", "e", "c", "t">>,
     <<"s", "e", "s", "s", "i", "o", "n", "_", "u", "s", "e", "r">>,
     <<"s", "i", "m", "i", "l", "a", "r">>,
     <<"s", "o", "m", "e">>,
     <<"s", "y", "m", "m", "e", "t", "r", "i", "c">>,
     <<"t", "a", "b", "l", "e">>,
     <<"t", "h", "e", "n">>,
     <<"t", "o">>,
     <<"t", "r", "a", "i", "l", "i", "n", "g">>,
     <<"t", "r", "u", "e">>,
     <<"u", "n", "i", "o", "n">>,
     <<"u", "n", "i", "q", "u", "e">>,
     <<"u", "s", "e", "r">>,
     <<"u", "s", "i", "n", "g">>,
     <<"v", "a", "r", "i", "a", "d", "i", "c">>,
     <<"v", "e", "r", "b", "o", "s", "e">>,
     <<"w", "h", "e", "n">>,
     <<"w", "h", "e", "r", "e">>}

\* reSub(r'_+', '_', cleaned), line 118
RECURSIVE CollapseUnderscores(_)
CollapseUnderscores(s) ==
    IF Len(s) < 2 THEN s
    ELSE IF s[1] = "_" /\ s[2] = "_" THEN CollapseUnderscores(Tail(s))
    ELSE <<s[1]>> \o CollapseUnderscores(Tail(s))

\* f"column_{index}" if index is not None, else the fallback name; the index
\* is << >> for None and <<i>> for the integer i
GeneratedName(index, fallback) ==
    IF index = << >> THEN fallback
    ELSE <<"c", "o", "l", "u", "m", "n", "_">> \o <<ToString(index[1])>>

\* clean_column_name (lines 105-132)
clean_column_name(column_name, index) ==
    IF column_name = << >> \/ Strip(column_name) = << >>
    THEN GeneratedName(index, <<"u", "n", "k", "n", "o", "w", "n", "_", "c", "o", "l", "u", "m", "n">>)
    ELSE LET word == Digit \cup {"_"} \cup
                     {"a", "b", "c", "d", "e", "f", "g", "h", "i", "j", "k", "l", "m",
                      "n", "o", "p", "q", "r", "s", "t", "u", "v", "w", "x", "y", "z",
                      "A", "B", "C", "D", "E", "F", "G", "H", "I", "J", "K", "L", "M",
                      "N", "O", "P", "Q", "R", "S", "T", "U", "V", "W", "X", "Y", "Z"}
             \* reSub(r'[^a-zA-Z0-9_]', '_', str(column_name)), line 112
             substituted == [i \in DOMAIN column_name |->
                                IF column_name[i] \in word THEN column_name[i] ELSE "_"]
             \* lines 115-116
             prefixed == IF substituted[1] \in Digit
                         THEN <<"c", "o", "l", "_">> \o substituted ELSE substituted
             \* lines 118-121
             stripped == RStrip(LStrip(CollapseUnderscores(prefixed), {"_"}), {"_"})
             \* lines 124-125
             cleaned == IF Lower(stripped) \in POSTGRES_RESERVED
                        THEN <<"_">> \o stripped ELSE stripped
         IN IF Len(cleaned) = 0
            THEN GeneratedName(index, <<"e", "m", "p", "t", "y", "_", "c", "o", "l", "u", "m", "n">>)
            ELSE Lower(cleaned)

\* The bound of the names given to clean_column_name
MaxName == 3

NoColumn == [status |-> "none", column_name |-> << >>, index |-> << >>, cleaned |-> << >>]

-----------------------------------------------------------------------------
(* data_savers/csv_saver.py: CSVDataSaver.save_data.  The output directory is *)
(* the function from the names of its files to their lines; it exists since  *)
(* the constructor (_setup_output_dir), so lines 50-52 do nothing.           *)

\* _get_file_path (lines 126-130) and _get_temp_path (lines 133-138); the
\* extension is the last element of a name
get_file_path(destination) ==
    IF destination # << >> /\ destination[Len(destination)] \in {".csv", ".CSV"}
    THEN destination ELSE destination \o <<".csv">>

get_temp_path(file_path) == <<".">> \o SubSeq(file_path, 1, Len(file_path) - 1) \o <<".tmp">>

\* data.to_csv(path, index=False): the header line, then one line per row
to_csv(data) ==
    <<[j \in DOMAIN data.cols |-> data.cols[j].name]>>
        \o [i \in DOMAIN data.rows |-> [j \in DOMAIN data.cols |-> data.rows[i][j].v]]

NoFiles == [n \in {} |-> << >>]

Remove(files, path) == [n \in DOMAIN files \ {path} |-> files[n]]

NoCsv ==
    [pc |-> "idle", files |-> NoFiles, pre |-> NoFiles, data |-> [cols |-> << >>, rows |-> << >>],
     file_path |-> << >>, temp_path |-> << >>, res |-> "none"]

\* One step of save_data (lines 42-72) from position c.pc; ok: the step did
\* not raise; written: how many lines a to_csv that raised left in the temp
\* file, -1 when it did not create the file
csv_save_step(c, ok, written) ==
    CASE c.pc = "to_csv" ->
            \* line 55
            IF ok THEN [c EXCEPT !.files = (c.temp_path :> to_csv(c.data)) @@ @, !.pc = "exists"]
            ELSE [c EXCEPT !.files = IF written < 0 THEN @
                                     ELSE (c.temp_path :> SubSeq(to_csv(c.data), 1, written))
                                              @@ @,
                           !.pc = "handler"]
      [] c.pc = "exists" ->
            \* line 58
            [c EXCEPT !.pc = IF c.file_path \in DOMAIN c.files THEN "remove" ELSE "rename"]
      [] c.pc = "remove" ->
            \* line 59
            IF ok THEN [c EXCEPT !.files = Remove(@, c.file_path), !.pc = "rename"]
            ELSE [c EXCEPT !.pc = "handler"]
      [] c.pc = "rename" ->
            \* line 60; lines 62-63: return True
            IF ok THEN [c EXCEPT !.files = (c.file_path :> @[c.temp_path])
                                              @@ Remove(@, c.temp_path),
                                 !.pc = "returned", !.res = "True"]
            ELSE [c EXCEPT !.pc = "handler"]
      [] c.pc = "handler" ->
            \* lines 65-72: the temp file is removed if it is there, an error of
            \* the removal is passed over; return False
            [c EXCEPT !.files = IF ok THEN Remove(@, c.temp_path) ELSE @,
                      !.pc = "returned", !.res = "False"]
      [] OTHER -> c

-----------------------------------------------------------------------------
(* PostgresDataSaver *)

NoData == [cols |-> << >>, rows |-> << >>]
NoTemp == << >>
NoObs == [set |-> FALSE, exists |-> FALSE, cols |-> << >>, rows |-> << >>]
EmptyCat == [n \in {} |-> NoData]

\* What SELECT * FROM {table} on the committed state gives a connection
Observe(cat, name) ==
    IF TableExists(cat, name)
    THEN [set |-> TRUE, exists |-> TRUE, cols |-> cat[name].cols, rows |-> cat[name].rows]
    ELSE [set |-> TRUE, exists |-> FALSE, cols |-> << >>, rows |-> << >>]

\* The orders in which "for column in new_columns" can visit a set
Orders(S) == {q \in [1..Cardinality(S) -> S] : \A i, j \in DOMAIN q : q[i] = q[j] => i = j}

NewColumns(cat, name, data) ==
    IF TableExists(cat, name) THEN NameSet(data.cols) \ NameSet(cat[name].cols) ELSE {}

RECURSIVE AddColumns(_, _, _, _)
AddColumns(cat, name, data, order) ==
    IF order = << >> THEN cat
    ELSE AddColumns(
            AddColumn(cat, name,
                PgCol(Head(order),
                      map_pandas_to_postgres_type(data.cols[ColIndex(data.cols, Head(order))].dtype),
                      FALSE)),
            name, data, Tail(order))

\* (a synchronization that also retypes the columns the dataframe infers otherwise)
synchronize_retype(cat, name, data, order) ==
    LET added == AddColumns(cat, name, data, order)
    IN [added EXCEPT ![name].cols =
            [j \in 1..Len(@) |->
                IF @[j].name \in NameSet(data.cols)
                THEN PgCol(@[j].name,
                           map_pandas_to_postgres_type(
                               data.cols[ColIndex(data.cols, @[j].name)].dtype),
                           @[j].notnull)
                ELSE @[j]]]

\* _synchronize_table_schema, when its statements are accepted
synchronize_table_schema(cat, name, data, order) == AddColumns(cat, name, data, order)

\* _create_table_from_dataframe, when its statement is accepted
create_table_from_dataframe(cat, name, data) ==
    CreateTable(cat, name, generate_table_columns(data))

\* (CREATE TABLE {temp} AS TABLE {target}: the rows come along)
CreateShadowWithRows(cat, temp, target) == (temp :> cat[target]) @@ cat

\* CREATE TABLE {temp} (LIKE {target} INCLUDING ALL)
CreateShadow(cat, temp, target) == CreateTable(cat, temp, cat[target].cols)

\* The saver between two calls of save_data
SaverIdle(conn, tx) ==
    [pc |-> "idle", conn |-> conn, tx |-> tx, work |-> EmptyCat, exists |-> FALSE,
     temp |-> NoTemp, failed |-> FALSE, res |-> "none"]

\* cursor.execute of one statement inside save_data: its effect on the
\* transaction, and where save_data goes when it raises
Execute(r, o, accepted, after, next, handler) ==
    LET f == Fails(r.conn, r.tx, o, accepted)
    IN [r EXCEPT !.work = IF f THEN @ ELSE after,
                 !.pc = IF f THEN handler ELSE next,
                 !.failed = @ \/ f,
                 !.conn = ConnAfter(r.conn, o),
                 !.tx = TxAfter(r.conn, r.tx, o, accepted)]

\* save_data, lines 105-107: the connection
save_begin(r, cat, up) ==
    LET c1 == GetConnection(r.conn, up)
        t1 == IF r.conn = "open" THEN r.tx ELSE "idle"
    IN IF c1 = "open"
       THEN [SaverIdle(c1, t1) EXCEPT !.pc = "exists", !.work = cat, !.res = "pending"]
       ELSE [SaverIdle(c1, t1) EXCEPT !.pc = "returned", !.res = "False"]

\* One step of save_data (lines 109-134) from position r.pc
save_step(r, data, dest, ts, o, order) ==
    CASE r.pc = "exists" ->
            \* _table_exists (lines 206-225): an error is logged and answered False
            LET f == Fails(r.conn, r.tx, o, TRUE)
            IN [r EXCEPT !.exists = ~f /\ TableExists(r.work, dest),
                         !.failed = @ \/ f,
                         !.conn = ConnAfter(r.conn, o),
                         !.tx = TxAfter(r.conn, r.tx, o, TRUE),
                         !.pc = "schema"]
      [] r.pc = "schema" ->
            \* _create_or_update_table (lines 228-243): an error of the creation
            \* is re-raised, an error of the synchronization is swallowed
            IF r.exists
            THEN Execute(r, o, TRUE, synchronize_table_schema(r.work, dest, data, order),
                         "shadow", "shadow")
            ELSE Execute(r, o, ~TableExists(r.work, dest),
                         create_table_from_dataframe(r.work, dest, data),
                         "shadow", "rollback")
      [] r.pc = "shadow" ->
            \* lines 119 and 254-265
            LET temp == TempName(dest, ts)
            IN Execute([r EXCEPT !.temp = temp], o,
                       TableExists(r.work, dest) /\ ~TableExists(r.work, temp),
                       CreateShadow(r.work, temp, dest), "insert", "rollback")
      [] r.pc = "insert" ->
            \* _insert_dataframe (lines 375-401): nothing is sent for an empty dataframe
            IF data.rows = << >> THEN [r EXCEPT !.pc = "rename_old"]
            ELSE Execute(r, o, InsertAccepted(r.work, r.temp, data),
                         InsertRows(r.work, r.temp, data), "rename_old", "rollback")
      [] r.pc = "rename_old" ->
            \* ALTER TABLE {target} RENAME TO {old}
            Execute(r, o, TableExists(r.work, dest) /\ ~TableExists(r.work, OldName(r.temp)),
                    RenameTable(r.work, dest, OldName(r.temp)), "rename_new", "rollback")
      [] r.pc = "rename_new" ->
            \* ALTER TABLE {temp} RENAME TO {target}
            Execute(r, o, TableExists(r.work, r.temp) /\ ~TableExists(r.work, dest),
                    RenameTable(r.work, r.temp, dest), "drop_old", "rollback")
      [] r.pc = "drop_old" ->
            \* DROP TABLE {old}
            Execute(r, o, TableExists(r.work, OldName(r.temp)),
                    DropTable(r.work, OldName(r.temp)), "commit", "rollback")
      [] r.pc = "commit" ->
            \* conn.commit() (line 124)
            LET f == Fails(r.conn, r.tx, o, TRUE)
            IN [r EXCEPT !.pc = IF f THEN "rollback" ELSE "done",
                         !.failed = @ \/ f,
                         !.conn = ConnAfter(r.conn, o),
                         !.tx = IF f THEN TxAfter(r.conn, r.tx, o, TRUE) ELSE "idle"]
      [] r.pc = "done" ->
            \* lines 126-128: log and return True
            [r EXCEPT !.pc = "returned", !.res = "True"]
      [] r.pc = "rollback" ->
            \* lines 130-134: conn.rollback() raises on a closed connection, and
            \* nothing inside save_data catches that
            LET c == ConnAfter(r.conn, o)
            IN [r EXCEPT !.pc = "returned", !.conn = c, !.tx = "idle",
                         !.res = IF c = "open" THEN "False" ELSE "raised"]
      [] OTHER -> r

\* The statements of save_data a store failure can hit, in order
SaveFaults == {NoFault} \cup FaultsOf("save", 1..8)

\* save_data run to its return; f.at counts the steps taken
RECURSIVE save_run(_, _, _, _, _, _, _)
save_run(r, i, data, dest, ts, f, order) ==
    IF r.pc = "returned" THEN r
    ELSE save_run(save_step(r, data, dest, ts, IF f.at = i THEN f.kind ELSE "ok", order),
                  i + 1, data, dest, ts, f, order)

save_data(r, cat, data, dest, ts, up, f, order) ==
    save_run(save_begin(r, cat, up), 1, data, dest, ts, f, order)

\* (a connection in autocommit mode: what the statements made stays)
CommittedAutocommit(cat, r) == r.work

\* The catalog committed when save_data has returned
Committed(cat, r) == IF r.res = "True" THEN r.work ELSE cat

-----------------------------------------------------------------------------
(* The public operations as the client sees them *)

ReadFaults == {NoFault} \cup FaultsOf("read", 1..2)

BackedSaveFaults ==
    SaveFaults \cup FaultsOf("ensure", {1}) \cup FaultsOf("exists", {1}) \cup FaultsOf("backup", 1..7)

\* read_data (lines 158-180): statement 1 is _table_exists, statement 2 the SELECT;
\* neither a commit nor a rollback is issued
read_data(cat, conn, tx, source, up, f) ==
    LET c1 == GetConnection(conn, up)
        t1 == IF conn = "open" THEN tx ELSE "idle"
        o1 == At(f, "read", 1)
        o2 == At(f, "read", 2)
        c2 == ConnAfter(c1, o1)
        t2 == TxAfter(c1, t1, o1, TRUE)
    IN IF c1 # "open" THEN [df |-> NoObs, conn |-> c1, tx |-> t1]
       ELSE IF Fails(c1, t1, o1, TRUE) \/ ~TableExists(cat, source)
       THEN [df |-> NoObs, conn |-> c2, tx |-> t2]
       ELSE IF Fails(c2, t2, o2, TRUE)
       THEN [df |-> NoObs, conn |-> ConnAfter(c2, o2), tx |-> TxAfter(c2, t2, o2, TRUE)]
       ELSE [df |-> Observe(cat, source), conn |-> c2, tx |-> t2]

\* save_with_backup (lines 137-155).  The backup service is constructed for the
\* call, on a connection of its own.
save_with_backup(r, cat, data, dest, ts, up, f, order) ==
    LET made == ensure_backup_tables_exist(cat, up, At(f, "ensure", 1))
        c1 == GetConnection(r.conn, up)
        t1 == IF r.conn = "open" THEN r.tx ELSE "idle"
        oe == At(f, "exists", 1)
        asked == c1 = "open"
        c2 == IF asked THEN ConnAfter(c1, oe) ELSE c1
        t2 == IF asked THEN TxAfter(c1, t1, oe, TRUE) ELSE t1
        found == asked /\ ~Fails(c1, t1, oe, TRUE) /\ TableExists(made.cat, dest)
        bk == IF found
              THEN backup_data(made.cat, IF up THEN "open" ELSE "none", "idle",
                               dest, ts, up, Within(f, "backup"))
              ELSE BackupResult(made.cat, "none", "idle", "skipped", "none")
        r2 == [r EXCEPT !.conn = c2, !.tx = t2]
        s == save_data(r2, bk.cat, data, dest, ts, up, Within(f, "save"), order)
    IN IF made.raised
       THEN [cat |-> made.cat, saver |-> r, res |-> "False", bk |-> "none"]
       ELSE IF bk.res = "raised"
       THEN [cat |-> bk.cat, saver |-> r2, res |-> "False", bk |-> bk.res]
       ELSE [cat |-> Committed(bk.cat, s), saver |-> s,
             res |-> IF s.res = "True" THEN "True" ELSE "False", bk |-> bk.res]

\* The tables backup_all lists: table_name NOT LIKE '%_backup'
ListedTables(cat) == {n \in DOMAIN cat : ~LikeBackup(n)}

\* The loop of backup_all (lines 153-164): every table in its own try/except,
\* all of them in the one transaction of the connection
RECURSIVE backup_each(_, _, _)
backup_each(st, tables, ts) ==
    IF tables = << >> THEN st
    ELSE LET table == Head(tables)
             cat2 == create_backup_table_if_not_exists(st.cat, table)
             failed == st.tx = "aborted" \/ ~SnapshotAccepted(cat2, table, ts)
         IN backup_each(
                IF failed
                THEN [st EXCEPT !.tx = "aborted", !.errors = @ \cup {table}]
                ELSE [st EXCEPT !.tx = "active",
                                !.cat = execute_backup_operation(cat2, table, ts)],
                Tail(tables), ts)

AllFailed == {<<"all">>}

\* backup_all (lines 130-181); the commit of an aborted transaction rolls back
backup_all(cat, conn, tx, ts, up, order) ==
    LET c1 == GetConnection(conn, up)
        st == backup_each([cat |-> cat, tx |-> "active", errors |-> {}], order, ts)
    IN IF c1 # "open" THEN [cat |-> cat, conn |-> conn, tx |-> tx, errors |-> AllFailed]
       ELSE IF ~Formats(BackupAllListQuery, 1)
       THEN [cat |-> cat, conn |-> c1, tx |-> "idle", errors |-> AllFailed]
       ELSE [cat |-> IF st.tx = "aborted" THEN cat ELSE st.cat,
             conn |-> c1, tx |-> "idle", errors |-> st.errors]

-----------------------------------------------------------------------------
(* The client: one synchronous call after the other *)

Call(op, dest, data, pre, result, msg, bk, errors) ==
    [op |-> op, dest |-> dest, data |-> data, status |-> "returned", pre |-> pre,
     result |-> result, msg |-> msg, bk |-> bk, errors |-> errors]

NoCall ==
    [op |-> "none", dest |-> << >>, data |-> NoData, status |-> "idle", pre |-> EmptyCat,
     result |-> "none", msg |-> "none", bk |-> "none", errors |-> {}]

Ready == call.status = "idle" /\ saver.pc = "idle" /\ calls < MaxCalls

\* What can go wrong during one operation: the store accepts no new connection
\* (which matters to whoever must open one), or one statement fails
Adverse(mustConnect, faults) ==
    {<<TRUE, f>> : f \in faults} \cup (IF mustConnect THEN {<<FALSE, NoFault>>} ELSE {})

RowCount(cat, name) == IF TableExists(cat, name) THEN Len(cat[name].rows) ELSE 0

\* Bookkeeping of the snapshots taken of TName by successful backup_data calls
Snapshot(l, cat, source, res) ==
    IF res = "True" /\ source = TName
    THEN [l EXCEPT !.taken = @ + 1, !.rows = @ + RowCount(cat, source)]
    ELSE l

Saved(l, dest, res) ==
    IF res = "True" /\ LikeBackup(dest) THEN [l EXCEPT !.direct = TRUE] ELSE l

SaveData(data, dest, up, f, order) ==
    /\ Ready
    /\ LET r == save_data(saver, db, data, dest, now, up, f, order)
       IN /\ db' = Committed(db, r)
          /\ saver' = SaverIdle(r.conn, r.tx)
          /\ call' = Call("save_data", dest, data, db, r.res, "none", "none", {})
          /\ ledger' = Saved(ledger, dest, r.res)
    /\ calls' = calls + 1
    /\ seen' = NoObs
    /\ UNCHANGED <<bconn, btx, now, pair, cast, column, csv>>

SaveWithBackup(data, dest, up, f, order) ==
    /\ Ready
    /\ LET s == save_with_backup(saver, db, data, dest, now, up, f, order)
       IN /\ db' = s.cat
          /\ saver' = SaverIdle(s.saver.conn, s.saver.tx)
          /\ call' = Call("save_with_backup", dest, data, db, s.res, "none", s.bk, {})
          /\ ledger' = Saved(Snapshot(ledger, db, dest, s.bk), dest, s.res)
    /\ calls' = calls + 1
    /\ seen' = NoObs
    /\ UNCHANGED <<bconn, btx, now, pair, cast, column, csv>>

ReadData(source, up, f) ==
    /\ Ready
    /\ LET r == read_data(db, saver.conn, saver.tx, source, up, f)
       IN /\ saver' = SaverIdle(r.conn, r.tx)
          /\ seen' = r.df
          /\ call' = Call("read_data", source, NoData, db,
                          IF r.df.set THEN "df" ELSE "None", "none", "none", {})
    /\ calls' = calls + 1
    /\ UNCHANGED <<db, bconn, btx, now, ledger, pair, cast, column, csv>>

BackupData(source, up, f) ==
    /\ Ready
    /\ LET b == backup_data(db, bconn, btx, source, now, up, f)
       IN /\ db' = b.cat
          /\ bconn' = b.conn
          /\ btx' = b.tx
          /\ call' = Call("backup_data", source, NoData, db, b.res, b.msg, "none", {})
          /\ ledger' = Snapshot(ledger, db, source, b.res)
    /\ calls' = calls + 1
    /\ seen' = NoObs
    /\ UNCHANGED <<saver, now, pair, cast, column, csv>>

BackupAll(up, order) ==
    /\ Ready
    /\ LET b == backup_all(db, bconn, btx, now, up, order)
       IN /\ db' = b.cat
          /\ bconn' = b.conn
          /\ btx' = b.tx
          /\ call' = Call("backup_all", << >>, NoData, db, "list", "none", "none", b.errors)
    /\ calls' = calls + 1
    /\ seen' = NoObs
    /\ UNCHANGED <<saver, now, ledger, pair, cast, column, csv>>

\* The caller takes the returned value and goes on
Continue ==
    /\ call.status = "returned"
    /\ call' = NoCall
    /\ seen' = NoObs
    /\ UNCHANGED <<db, saver, bconn, btx, now, calls, ledger, pair, cast, column, csv>>

\* Time passes between two calls
Tick ==
    /\ call.status = "idle"
    /\ saver.pc = "idle"
    /\ now < MaxTime
    /\ now' = now + 1
    /\ UNCHANGED <<db, saver, bconn, btx, call, seen, calls, ledger, pair, cast, column, csv>>

\* The two savers of SpecPair before their calls
Savers == {1, 2}

NoPair ==
    [i \in Savers |->
        [status |-> "idle", r |-> SaverIdle("open", "idle"), data |-> NoData, dest |-> << >>,
         ts |-> 0, pre |-> EmptyCat, asked |-> FALSE, order |-> << >>,
         held |-> {}, made |-> {}, mine |-> {}, lost |-> FALSE]]

\* The schema the services are constructed against: empty, or left by an
\* earlier run that saved DA to TName
EarlierRun ==
    save_data(SaverIdle("none", "idle"), EmptyCat, DA, TName, 0, TRUE, NoFault, << >>).work

InitialCatalogs == {EmptyCat, EarlierRun}

\* Both services constructed: the saver has connected and committed CREATE
\* SCHEMA IF NOT EXISTS; the backup service has connected and made sure of the
\* backup tables, which commits unless it listed no table
Init ==
    /\ \E cat \in InitialCatalogs :
          /\ db = ensure_backup_tables_exist(cat, TRUE, "ok").cat
          /\ btx = IF cat = EmptyCat THEN "active" ELSE "idle"
    /\ saver = SaverIdle("open", "idle")
    /\ bconn = "open"
    /\ now = 0
    /\ call = NoCall
    /\ seen = NoObs
    /\ calls = 0
    /\ ledger = [taken |-> 0, rows |-> 0, direct |-> FALSE]
    /\ pair = NoPair
    /\ cast = NoCast
    /\ column = NoColumn
    /\ csv = NoCsv

\* The client is Ready between two calls, and then makes any of them
Next ==
    \/ /\ Ready
       /\ \E p \in Saves, e \in Adverse(saver.conn # "open", SaveFaults) :
             \E order \in Orders(NewColumns(db, p[2], p[1])) :
                 SaveData(p[1], p[2], e[1], e[2], order)
    \/ /\ Ready
       /\ \E p \in BackedSaves, e \in Adverse(TRUE, BackedSaveFaults) :
             \E order \in Orders(NewColumns(db, p[2], p[1])) :
                 SaveWithBackup(p[1], p[2], e[1], e[2], order)
    \/ /\ Ready
       /\ \E source \in Sources, e \in Adverse(saver.conn # "open", ReadFaults) :
             ReadData(source, e[1], e[2])
    \/ /\ Ready
       /\ \E source \in Sources, e \in Adverse(bconn # "open", BackupFaults) :
             BackupData(source, e[1], e[2])
    \/ /\ Ready
       /\ \E e \in Adverse(bconn # "open", {NoFault}) :
             \E order \in Orders(ListedTables(db)) : BackupAll(e[1], order)
    \/ Continue
    \/ Tick

Spec == Init /\ [][Next]_vars

-----------------------------------------------------------------------------
(* save_data statement by statement, with a reader on a connection of its own *)

\* (a connection in autocommit mode: every statement is visible at once)
VisibleAutocommit(cat, r) == IF r.pc = "returned" THEN cat ELSE r.work

\* (a saver that commits the schema step before it starts the atomic replace)
VisibleAfterSchema(cat, r) == IF r.pc \in {"shadow", "done"} THEN r.work ELSE cat

\* What the other connections see after a step of the saver: psycopg2 opens the
\* connection with autocommit off, so nothing before conn.commit() (line 124)
Visible(cat, r) == IF r.pc = "done" THEN r.work ELSE cat

SaveBegin(data, dest, up) ==
    /\ Ready
    /\ saver' = save_begin(saver, db, up)
    /\ call' = [NoCall EXCEPT !.op = "save_data", !.dest = dest, !.data = data,
                              !.status = "running", !.pre = db]
    /\ calls' = calls + 1
    /\ seen' = NoObs
    /\ UNCHANGED <<db, bconn, btx, now, ledger, pair, cast, column, csv>>

SaveStep(o, order) ==
    /\ call.status = "running"
    /\ saver.pc \notin {"idle", "returned"}
    /\ saver' = save_step(saver, call.data, call.dest, now, o, order)
    /\ db' = Visible(db, saver')
    /\ seen' = NoObs
    /\ UNCHANGED <<bconn, btx, now, call, calls, ledger, pair, cast, column, csv>>

SaveReturn ==
    /\ call.status = "running"
    /\ saver.pc = "returned"
    /\ call' = [call EXCEPT !.status = "returned", !.result = saver.res]
    /\ saver' = SaverIdle(saver.conn, saver.tx)
    /\ ledger' = Saved(ledger, call.dest, saver.res)
    /\ UNCHANGED <<db, bconn, btx, now, seen, calls, pair, cast, column, csv>>

\* SELECT * FROM {table} on another connection, at any moment of the save
ReaderSelect ==
    /\ call.status = "running"
    /\ seen' = Observe(db, call.dest)
    /\ UNCHANGED <<db, saver, bconn, btx, now, call, calls, ledger, pair, cast, column, csv>>

NextSteps ==
    \/ \E data \in Datasets, e \in Adverse(saver.conn # "open", {NoFault}) :
          SaveBegin(data, TName, e[1])
    \/ \E o \in Outcomes :
          \E order \in Orders(NewColumns(saver.work, call.dest, call.data)) : SaveStep(o, order)
    \/ SaveReturn
    \/ ReaderSelect
    \/ Continue
    \/ Tick

SpecSteps == Init /\ [][NextSteps]_vars

-----------------------------------------------------------------------------
(* Two savers, each on a connection of its own, one save_data each.  The    *)
(* store runs both transactions at READ COMMITTED: a statement sees the     *)
(* committed tables and what its own transaction has changed.  CREATE TABLE *)
(* (LIKE t) takes ACCESS SHARE on t, ALTER TABLE t (ADD COLUMN, RENAME)      *)
(* takes ACCESS EXCLUSIVE, both kept until the transaction ends; a name an  *)
(* open transaction has given to a table cannot be given to another table   *)
(* before that transaction ends (unique index of the catalog).  A statement *)
(* that cannot go on waits; when both transactions wait for each other the  *)
(* store makes the statement of one of them fail ("deadlock detected").     *)

Other(i) == 3 - i

\* What the transaction of p sees: the committed tables, and its own version
\* of every table it has created, altered, renamed or dropped
View(cat, p) ==
    [n \in (DOMAIN cat \ p.mine) \cup (DOMAIN p.r.work \cap p.mine) |->
        IF n \in p.mine THEN p.r.work[n] ELSE cat[n]]

\* The table lock the statement p stands at asks for
LockWanted(p) ==
    CASE p.r.pc = "schema" /\ p.r.exists /\ p.order # << >> -> {<<p.dest, "excl">>}
      [] p.r.pc = "shadow" -> {<<p.dest, "share">>}
      [] p.r.pc = "rename_old" -> {<<p.dest, "excl">>}
      [] OTHER -> {}

\* The table names the statement p stands at writes into the catalog
NamesWanted(p) ==
    CASE p.r.pc = "schema" /\ ~p.r.exists -> {p.dest}
      [] p.r.pc = "shadow" -> {TempName(p.dest, p.ts)}
      [] p.r.pc = "rename_old" -> {OldName(p.r.temp)}
      [] p.r.pc = "rename_new" -> {p.dest}
      [] OTHER -> {}

Conflicts(l, h) == l[1] = h[1] /\ "excl" \in {l[2], h[2]}

Running(p) == p.status = "running" /\ p.r.pc # "returned"

\* A statement in an aborted transaction, or on a closed connection, fails at once
FailsAtOnce(p) == p.r.tx = "aborted" \/ p.r.conn # "open"

\* SELECT column_name FROM information_schema.columns is still to be run
NeedsAsk(p) == p.r.pc = "schema" /\ p.r.exists /\ ~p.asked

Grantable(i) ==
    \A l \in LockWanted(pair[i]) : \A h \in pair[Other(i)].held : ~Conflicts(l, h)

NamesFree(i) == NamesWanted(pair[i]) \cap pair[Other(i)].made = {}

\* The statement of saver i waits for the other transaction to end
Waits(i) ==
    /\ Running(pair[i])
    /\ ~FailsAtOnce(pair[i])
    /\ ~NeedsAsk(pair[i])
    /\ IF LockWanted(pair[i]) \subseteq pair[i].held THEN ~NamesFree(i) ELSE ~Grantable(i)

\* The tables whose entry differs between two catalogs
Changed(before, after) ==
    {n \in DOMAIN before \cup DOMAIN after :
        \/ n \notin DOMAIN before
        \/ n \notin DOMAIN after
        \/ before[n] # after[n]}

\* (a save_data whose error handler returns without conn.rollback())
TransactionEndedByCommit(r) == r.pc = "done"

\* conn.commit() (line 124) and conn.rollback() (line 133) end the transaction
TransactionEnded(r) == r.pc \in {"done", "returned"}

\* Saver i after its statement ran on the view it had, the store answering o;
\* the end of the transaction releases what it held
AfterStatement(p, view, o) ==
    LET r1 == save_step([p.r EXCEPT !.work = view], p.data, p.dest, p.ts, o, p.order)
        over == TransactionEnded(r1)
        changed == Changed(view, r1.work)
    IN [p EXCEPT !.r = r1,
                 !.asked = FALSE,
                 !.held = IF over THEN {} ELSE @,
                 !.mine = IF over THEN {} ELSE @ \cup changed,
                 !.made = IF over THEN {} ELSE @ \cup (changed \cap DOMAIN r1.work)]

\* Both calls are made: save_data(d1, dest1) and save_data(d2, dest2), lines 105-107
PairBegin(d1, dest1, d2, dest2, ts2) ==
    /\ \A i \in Savers : pair[i].status = "idle"
    /\ call.status = "idle" /\ calls = 0 /\ now = 0
    /\ pair' = [i \in Savers |->
                  [NoPair[i] EXCEPT !.status = "running",
                                    !.r = save_begin(SaverIdle("open", "idle"), db, TRUE),
                                    !.data = IF i = 1 THEN d1 ELSE d2,
                                    !.dest = IF i = 1 THEN dest1 ELSE dest2,
                                    !.ts = IF i = 1 THEN 0 ELSE ts2,
                                    !.pre = db]]
    /\ UNCHANGED <<db, saver, bconn, btx, now, call, seen, calls, ledger, cast, column, csv>>

\* _synchronize_table_schema, lines 348-355: the columns to add, as committed now
PairAsk(i, order) ==
    /\ Running(pair[i])
    /\ NeedsAsk(pair[i])
    /\ pair' = [pair EXCEPT ![i].asked = TRUE,
                            ![i].order = IF FailsAtOnce(pair[i]) THEN << >> ELSE order]
    /\ UNCHANGED <<db, saver, bconn, btx, now, call, seen, calls, ledger, cast, column, csv>>

\* The store grants the lock the statement asks for
PairLock(i) ==
    /\ Running(pair[i])
    /\ ~FailsAtOnce(pair[i])
    /\ ~NeedsAsk(pair[i])
    /\ ~(LockWanted(pair[i]) \subseteq pair[i].held)
    /\ Grantable(i)
    /\ pair' = [pair EXCEPT ![i].held = @ \cup LockWanted(pair[i])]
    /\ UNCHANGED <<db, saver, bconn, btx, now, call, seen, calls, ledger, cast, column, csv>>

\* The store rejects ALTER TABLE ... ADD COLUMN of a column the table has by now
ColumnExists(p, view) ==
    /\ p.r.pc = "schema" /\ p.r.exists
    /\ \E k \in DOMAIN p.order : p.order[k] \in NameSet(view[p.dest].cols)

\* The statement saver i stands at runs
PairStep(i) ==
    LET p == pair[i]
        view == View(db, p)
        q == AfterStatement(p, view, IF ColumnExists(p, view) THEN "reject" ELSE "ok")
    IN /\ Running(p)
       /\ ~NeedsAsk(p)
       /\ FailsAtOnce(p) \/ (LockWanted(p) \subseteq p.held /\ NamesFree(i))
       /\ pair' = [pair EXCEPT ![i] = q]
       /\ db' = Visible(db, q.r)
       /\ UNCHANGED <<saver, bconn, btx, now, call, seen, calls, ledger, cast, column, csv>>

\* Both transactions wait for each other: the store fails the statement of one
PairDeadlock(i) ==
    /\ Waits(i)
    /\ Waits(Other(i))
    /\ pair' = [pair EXCEPT ![i] = [AfterStatement(pair[i], View(db, pair[i]), "reject")
                                        EXCEPT !.lost = TRUE]]
    /\ UNCHANGED <<db, saver, bconn, btx, now, call, seen, calls, ledger, cast, column, csv>>

SaverNext(i) ==
    \/ \E order \in Orders(NewColumns(View(db, pair[i]), pair[i].dest, pair[i].data)) :
          PairAsk(i, order)
    \/ PairLock(i)
    \/ PairStep(i)
    \/ PairDeadlock(i)

NextPair ==
    \/ \E d1, d2 \in Datasets, dest2 \in Sources, ts2 \in 0..MaxTime :
          PairBegin(d1, TName, d2, dest2, ts2)
    \/ \E i \in Savers : SaverNext(i)

SpecPair == Init /\ [][NextPair]_vars

\* The savers' threads keep running and the store's deadlock detector fires: a
\* step that can be taken is taken
SpecPairFair == SpecPair /\ WF_vars(NextPair)

-----------------------------------------------------------------------------
(* auto_cast_to_sql on its own: a dataset is given, the function is applied *)
(* to it against what the target table's schema read gave.                  *)

InitCast ==
    /\ db = EmptyCat
    /\ btx = "active"
    /\ saver = SaverIdle("open", "idle")
    /\ bconn = "open"
    /\ now = 0
    /\ call = NoCall
    /\ seen = NoObs
    /\ calls = 0
    /\ ledger = [taken |-> 0, rows |-> 0, direct |-> FALSE]
    /\ pair = NoPair
    /\ column = NoColumn
    /\ csv = NoCsv
    /\ \/ \E n \in 1..MaxRows :
             \* the index: the default RangeIndex, the labels left by dropping the
             \* first row of a longer dataset, the labels after a sort
             \E index \in {[p \in 1..n |-> p - 1], [p \in 1..n |-> p], [p \in 1..n |-> n - p]},
                values \in [1..n -> {NA} \cup {Str(chars) : chars \in Samples}] :
                 cast = [NoCast EXCEPT !.status = "given",
                                       !.df = [index |-> index, columns |-> <<"a">>,
                                               data |-> [c \in {"a"} |-> values]]]
       \* the dataset of one row {id: "1", price: "1.234,56", active: "yes"}
       \/ cast = [NoCast EXCEPT
                     !.status = "given",
                     !.df = [index |-> <<0>>, columns |-> <<"id", "price", "active">>,
                             data |-> [c \in {"id", "price", "active"} |->
                                          IF c = "id" THEN <<Str(<<"1">>)>>
                                          ELSE IF c = "price"
                                          THEN <<Str(<<"1", ".", "2", "3", "4", ",", "5", "6">>)>>
                                          ELSE <<Str(<<"y", "e", "s">>)>>]]]

AutoCast(read) ==
    /\ cast.status = "given"
    /\ LET r == auto_cast_to_sql(read, cast.df)
       IN cast' = [cast EXCEPT !.status = "returned", !.read = read,
                               !.raised = r.raised, !.out = r.df, !.fails = r.fails]
    /\ UNCHANGED <<db, saver, bconn, btx, now, call, seen, calls, ledger, pair, column, csv>>

NextCast == \E read \in SchemaReads : AutoCast(read)

SpecCast == InitCast /\ [][NextCast]_vars

-----------------------------------------------------------------------------
(* The column types save_data declares: datasets of no row whose column b   *)
(* has each of the dtypes a pandas column can have, saved to a destination   *)
(* that does not exist (CREATE TABLE) or lacks the column (ADD COLUMN).      *)

\* The dtypes data.dtypes can hold, as _map_pandas_to_postgres_type compares
\* them with its strings: a dtype equals a string when the string is its name
Dtypes ==
    {"int64", "int32", "int16", "Int64", "float64", "float32", "bool", "boolean",
     "datetime64[ns]", "datetime64[ns, UTC]", "object", "string", "category"}

TypedData(dtype) == [cols |-> <<Col("a", "int64"), Col("b", dtype)>>, rows |-> << >>]

NextInfer ==
    \/ \E dtype \in Dtypes :
          \E order \in Orders(NewColumns(db, TName, TypedData(dtype))) :
              SaveData(TypedData(dtype), TName, TRUE, NoFault, order)
    \/ Continue

SpecInfer == Init /\ [][NextInfer]_vars

-----------------------------------------------------------------------------
(* The operations on two destinations, no statement failing: what a save or  *)
(* a backup of one table does to the other tables of the schema.             *)

NextFrame ==
    \/ \E data \in {DA, DX}, dest \in Sources :
          \E order \in Orders(NewColumns(db, dest, data)) :
              \/ SaveData(data, dest, TRUE, NoFault, order)
              \/ SaveWithBackup(data, dest, TRUE, NoFault, order)
    \/ \E source \in Sources : BackupData(source, TRUE, NoFault)
    \/ Continue

SpecFrame == Init /\ [][NextFrame]_vars

-----------------------------------------------------------------------------
(* clean_column_name on its own: a header and its position are given, the    *)
(* function is applied.                                                      *)

-----------------------------------------------------------------------------
(* clean_column_name on its own: a header and an index are given, the       *)
(* function is applied to them.                                             *)

RECURSIVE Strings(_, _)
\* The strings of at most n characters over an alphabet
Strings(alphabet, n) ==
    IF n = 0 THEN {<< >>}
    ELSE Strings(alphabet, n - 1)
         \cup {<<c>> \o s : c \in alphabet,
                            s \in {t \in Strings(alphabet, n - 1) : Len(t) = n - 1}}

\* The headers given: every short string of a letter, a capital, a digit, an
\* underscore, a space and a dash, and headers of a spreadsheet
Headers ==
    Strings({"o", "N", "1", "_", " ", "-"}, MaxName)
    \cup {<<"S", "e", "l", "e", "c", "t">>, <<"u", "s", "e", "r", "_">>,
          <<"(", "2", "0", "2", "3", ")">>, <<"P", "r", "i", "c", "e", " ", "%">>,
          <<"T", "o", "t", "a", "l", " ", "(", "E", "U", "R", ")">>}

InitClean ==
    /\ db = EmptyCat
    /\ btx = "active"
    /\ saver = SaverIdle("open", "idle")
    /\ bconn = "open"
    /\ now = 0
    /\ call = NoCall
    /\ seen = NoObs
    /\ calls = 0
    /\ ledger = [taken |-> 0, rows |-> 0, direct |-> FALSE]
    /\ pair = NoPair
    /\ cast = NoCast
    /\ csv = NoCsv
    /\ \E name \in Headers, index \in {<< >>, <<0>>, <<1>>} :
          column = [NoColumn EXCEPT !.status = "given", !.column_name = name,
                                    !.index = index]

CleanColumnName ==
    /\ column.status = "given"
    /\ column' = [column EXCEPT !.status = "returned",
                                !.cleaned = clean_column_name(column.column_name,
                                                              column.index)]
    /\ UNCHANGED <<db, saver, bconn, btx, now, call, seen, calls, ledger, pair, cast, csv>>

SpecClean == InitClean /\ [][CleanColumnName]_vars

-----------------------------------------------------------------------------
(* CSVDataSaver.save_data statement by statement: between two statements    *)
(* the files of the output directory are what another process finds there.  *)

CsvDestinations == {TName, TName \o <<".csv">>}

InitCsv ==
    /\ db = EmptyCat
    /\ btx = "active"
    /\ saver = SaverIdle("open", "idle")
    /\ bconn = "open"
    /\ now = 0
    /\ call = NoCall
    /\ seen = NoObs
    /\ calls = 0
    /\ ledger = [taken |-> 0, rows |-> 0, direct |-> FALSE]
    /\ pair = NoPair
    /\ cast = NoCast
    /\ column = NoColumn
    \* the destination file is not there yet, or holds an earlier dataset
    /\ \E files \in {NoFiles} \cup {get_file_path(TName) :> to_csv(data) : data \in Datasets} :
          csv = [NoCsv EXCEPT !.files = files, !.pre = files]

\* save_data is called: lines 45-47
CsvSaveData(data, destination) ==
    /\ csv.pc \in {"idle", "returned"}
    /\ calls < MaxCalls
    /\ calls' = calls + 1
    /\ csv' = [csv EXCEPT !.pc = "to_csv", !.pre = csv.files, !.data = data,
                          !.file_path = get_file_path(destination),
                          !.temp_path = get_temp_path(get_file_path(destination)),
                          !.res = "none"]
    /\ UNCHANGED <<db, saver, bconn, btx, now, call, seen, ledger, pair, cast, column>>

\* The next statement of save_data runs; it raises or it does not, and a
\* to_csv that raises leaves no file, an empty file or the first lines only
CsvStep(ok, written) ==
    /\ csv.pc \in {"to_csv", "exists", "remove", "rename", "handler"}
    /\ csv' = csv_save_step(csv, ok, written)
    /\ csv' # csv
    /\ UNCHANGED <<db, saver, bconn, btx, now, call, seen, calls, ledger, pair, cast, column>>

NextCsv ==
    \/ \E data \in Datasets, destination \in CsvDestinations : CsvSaveData(data, destination)
    \/ \E ok \in BOOLEAN :
          \E written \in -1..(Len(to_csv(csv.data)) - 1) : CsvStep(ok, written)

SpecCsv == InitCsv /\ [][NextCsv]_vars

-----------------------------------------------------------------------------
(* Properties *)

Returned(ops) == call.status = "returned" /\ call.op \in ops

SaveOps == {"save_data", "save_with_backup"}

\* What read_data gives on a healthy connection
ReadBack(cat, source) == read_data(cat, "open", "idle", source, TRUE, NoFault).df

\* The frame holds the dataset's rows: as many rows, and in every column of the
\* dataset the dataset's own value
SameRows(df, data) ==
    /\ df.exists
    /\ Len(df.rows) = Len(data.rows)
    /\ NameSet(data.cols) \subseteq NameSet(df.cols)
    /\ \A i \in 1..Len(data.rows) : \A j \in 1..Len(data.cols) :
          df.rows[i][ColIndex(df.cols, data.cols[j].name)] = data.rows[i][j]

\* The frame holds the dataset's rows, each value converted to the declared
\* type of the column it is stored in
ConvertedRows(df, data) ==
    /\ df.exists
    /\ Len(df.rows) = Len(data.rows)
    /\ NameSet(data.cols) \subseteq NameSet(df.cols)
    /\ \A i \in 1..Len(data.rows) : \A j \in 1..Len(data.cols) :
          LET k == ColIndex(df.cols, data.cols[j].name)
          IN df.rows[i][k] = AssignCast(df.cols[k].type, data.rows[i][j])

\* C1 (as stated): whenever save_data does not succeed it returns False, and the
\* destination holds the rows and columns it held before the call (a destination
\* that did not exist still does not exist).
C1_FailedSaveReturnsFalse ==
    (Returned({"save_data"}) /\ call.result # "True")
        => /\ call.result = "False"
           /\ Observe(db, call.dest) = Observe(call.pre, call.dest)

\* The part of C1 the code keeps: a save_data that does not succeed, however it
\* ends, leaves every committed table as it was.
C1_FailedSaveChangesNothing ==
    (Returned({"save_data"}) /\ call.result # "True") => db = call.pre

\* C2 (as stated): after a save returned True, read_data of the destination
\* returns exactly the dataset's rows: same count, same value in every column
\* of the dataset.
C2_ReadReturnsExactRows ==
    (Returned(SaveOps) /\ call.result = "True")
        => SameRows(ReadBack(db, call.dest), call.data)

\* C2 (amended): after a save returned True, read_data of the destination returns
\* as many rows as the dataset has, and in every column of the dataset the
\* dataset's value converted to the column's declared type, whatever rows the
\* destination held before.
C2_ReadReturnsConvertedRows ==
    (Returned(SaveOps) /\ call.result = "True")
        => ConvertedRows(ReadBack(db, call.dest), call.data)

C2_SavedOverOtherRows ==
    /\ Returned(SaveOps) /\ call.result = "True"
    /\ TableExists(call.pre, call.dest)
    /\ Len(call.pre[call.dest].rows) > 0
    /\ call.data = DA
    /\ db[call.dest].rows = << <<TextV("1")>> >>

\* C3: while save_data runs on an existing destination, a SELECT on another
\* connection finds the table, holding either all the rows it held before the
\* call or all the rows of the dataset (as stored); never a missing table,
\* never a part of either.
C3_ReaderSeesOldOrNew ==
    (call.status = "running" /\ seen.set /\ TableExists(call.pre, call.dest))
        => /\ seen.exists
           /\ \/ seen = Observe(call.pre, call.dest)
              \/ ConvertedRows(seen, call.data)

C3_ReadDuringSwap ==
    /\ call.status = "running"
    /\ saver.pc = "rename_new"
    /\ ~TableExists(saver.work, call.dest)
    /\ seen.set /\ seen.exists
    /\ Len(seen.rows) > 0
    /\ Len(call.data.rows) > 0
    /\ ~ConvertedRows(seen, call.data)

\* Every row of the table, as it was, is in the backup table, followed by the
\* backup metadata
SnapshotHeld(cat, pre, source) ==
    /\ TableExists(cat, BackupName(source))
    /\ \A i \in 1..Len(pre[source].rows) :
          \E k \in 1..Len(cat[BackupName(source)].rows) :
              \A j \in 1..Len(pre[source].cols) :
                  cat[BackupName(source)].rows[k][j] = pre[source].rows[i][j]

\* C4 (as stated): every save_with_backup that returns True on a destination
\* that existed with rows R has committed a snapshot holding every row of R to
\* the backup table.
C4_SnapshotBeforeReplace ==
    (Returned({"save_with_backup"}) /\ call.result = "True"
        /\ TableExists(call.pre, call.dest))
        => SnapshotHeld(db, call.pre, call.dest)

\* C5 (as stated): backup tables are append-only under every operation: a
\* backup table stays, and the rows it holds stay as they are, in place.
C5_BackupAppendOnly ==
    [][\A n \in DOMAIN db :
          LikeBackup(n) =>
              /\ n \in DOMAIN db'
              /\ Len(db'[n].rows) >= Len(db[n].rows)
              /\ \A i \in 1..Len(db[n].rows) : db'[n].rows[i] = db[n].rows[i]]_vars

\* C6: as long as no save is aimed at the backup table itself, the backup table
\* of TName holds as many rows as the successful backup_data(TName) calls found
\* in TName, call by call: every call appends one full snapshot, never a
\* deduplicated one.
C6_BackupRowsAreSumOfSnapshots ==
    ~ledger.direct => RowCount(db, BackupName(TName)) = ledger.rows

C6_TwoSnapshotsOfSameRows ==
    /\ ledger.taken = 2
    /\ ledger.rows = 2
    /\ ~ledger.direct
    /\ RowCount(db, TName) = 1
    /\ RowCount(db, BackupName(TName)) = 2

\* The snapshot backup_all owes a table it does not report: the backup table
\* exists and has grown by the table's rows
SnapshotCommitted(cat, pre, n) ==
    /\ TableExists(cat, BackupName(n))
    /\ RowCount(cat, BackupName(n)) = RowCount(pre, BackupName(n)) + RowCount(pre, n)

\* C7 (as stated): a backup_all that had a connection returns exactly the
\* tables whose backup failed, and the snapshot of every table it does not
\* return is committed.
C7_BatchReportsExactlyTheFailures ==
    (Returned({"backup_all"}) /\ bconn = "open" /\ ListedTables(call.pre) # {})
        => /\ call.errors \subseteq ListedTables(call.pre)
           /\ \A n \in ListedTables(call.pre) \ call.errors :
                  SnapshotCommitted(db, call.pre, n)

\* C8 (as stated): backup_data of a table that does not exist returns False with
\* the not-found message and changes nothing.
C8_MissingSourceIsNotFound ==
    (Returned({"backup_data"}) /\ ~TableExists(call.pre, call.dest))
        => /\ call.result = "False"
           /\ call.msg = "NotFound"
           /\ db = call.pre

\* C8 (amended): backup_data of a table that does not exist returns False and
\* changes nothing; its message is the not-found message, or "No database
\* connection" when the service could not get a connection.
C8_MissingSourceChangesNothing ==
    (Returned({"backup_data"}) /\ ~TableExists(call.pre, call.dest))
        => /\ call.result = "False"
           /\ call.msg \in {"NotFound", "NoConnection"}
           /\ (bconn = "open" => call.msg = "NotFound")
           /\ db = call.pre

C8_MissingSourceReported ==
    /\ Returned({"backup_data"})
    /\ call.dest = VName
    /\ TableExists(call.pre, TName)
    /\ TableExists(call.pre, BackupName(TName))
    /\ call.result = "False"
    /\ call.msg = "NotFound"

\* Every column of the table, as it was, is still there with its declared type
ColumnsKept(old, new) ==
    \A i \in 1..Len(old) :
        \E j \in 1..Len(new) : new[j].name = old[i].name /\ new[j].type = old[i].type

\* C9: over every sequence of calls, successful or failed, no table loses a
\* column and no column changes its declared type.
C9_SchemaOnlyGrows ==
    [][\A n \in DOMAIN db :
          n \in DOMAIN db' /\ ColumnsKept(db[n].cols, db'[n].cols)]_vars

C9_SavedNarrowerDataset ==
    /\ Returned(SaveOps) /\ call.result = "True"
    /\ call.data = DA
    /\ TableExists(call.pre, call.dest)
    /\ call.pre[call.dest].cols[1].type = "TEXT"
    /\ db[call.dest].cols[1].type = "TEXT"

\* The columns the dataset brings that the table did not have
Extra(cols, data) ==
    {data.cols[j].name : j \in {j \in 1..Len(data.cols) : data.cols[j].name \notin NameSet(cols)}}

\* C10: after a successful save on an existing table, the table has the columns
\* it had, in place, followed by the columns only the dataset has; it holds the
\* dataset's rows; and every column the dataset lacks is null in every row.
C10_GrownTableHoldsDataset ==
    (Returned(SaveOps) /\ call.result = "True" /\ TableExists(call.pre, call.dest))
        => LET old == call.pre[call.dest].cols
               new == db[call.dest].cols
           IN /\ Len(new) = Len(old) + Cardinality(Extra(old, call.data))
              /\ \A i \in 1..Len(old) : new[i] = old[i]
              /\ NameSet(new) = NameSet(old) \cup NameSet(call.data.cols)
              /\ Len(db[call.dest].rows) = Len(call.data.rows)
              /\ ConvertedRows(Observe(db, call.dest), call.data)
              /\ \A i \in 1..Len(db[call.dest].rows) : \A j \in 1..Len(new) :
                    new[j].name \notin NameSet(call.data.cols)
                        => db[call.dest].rows[i][j] = Null

C10_SavedOneMoreColumn ==
    /\ Returned(SaveOps) /\ call.result = "True"
    /\ call.data = DX
    /\ TableExists(call.pre, call.dest)
    /\ call.pre[call.dest].cols = generate_table_columns(DA)
    /\ call.pre[call.dest].rows = DA.rows
    /\ ColNames(db[call.dest].cols) = <<"a", "b">>
    /\ db[call.dest].rows = DX.rows

\* What save_with_backup reports of its backup step when that step raised: no
\* backup_data was reached because the constructor of the backup service raised
\* ("none"), or backup_data itself raised ("raised")
BackupStepRaised == call.bk \in {"none", "raised"}

\* C11 (as stated): whatever the outcome of the backup step of save_with_backup
\* (success, returned failure, or an error raised while the backup service is set
\* up or runs), the save is still carried out: no call ends in the backup step.
C11_SaveCarriedOutWhateverTheBackup ==
    Returned({"save_with_backup"}) => ~BackupStepRaised

\* The case of C11 the code keeps, as a state the program reaches: backup_data
\* returned failure and the save went on and succeeded
C11_SavedAfterFailedBackup ==
    /\ Returned({"save_with_backup"})
    /\ call.bk = "False"
    /\ call.result = "True"

\* C12 (as stated): no public operation raises past its caller under any failure
\* of the store, a failed rollback on a dead connection included: every call
\* that ends has returned its failure indicator.
C12_NoOperationRaises ==
    call.status = "returned" => call.result # "raised"

\* C13 (as stated): an error met while the missing columns of an existing
\* destination are determined or added is fatal to the save attempt: save_data
\* does not go on to the creation of the shadow table, so it never stands at
\* that statement with a statement of its own already failed.
C13_SchemaErrorIsFatal ==
    (call.status = "running" /\ saver.pc = "shadow") => ~saver.failed

\* The schema step of the running save has changed the destination in the
\* saver's transaction: created it, or added the dataset's missing columns
SchemaStepActed ==
    /\ TableExists(saver.work, call.dest)
    /\ NewColumns(saver.work, call.dest, call.data) = {}
    /\ \/ ~TableExists(call.pre, call.dest)
       \/ NewColumns(call.pre, call.dest, call.data) # {}

\* C14 (as stated): the schema step runs in its own commit boundary: when the
\* atomic replace begins, what the schema step created or added is committed.
C14_SchemaCommittedBeforeSwap ==
    (call.status = "running" /\ saver.pc = "shadow" /\ SchemaStepActed)
        => /\ TableExists(db, call.dest)
           /\ NewColumns(db, call.dest, call.data) = {}

\* C14 (amended): the schema step runs in the transaction of the atomic replace.
\* Nothing of a running save_data is committed before its one commit, and a save
\* that fails at any later statement leaves the committed schema as it was
\* before the call, the created table and the added columns undone with the rest.
C14_SchemaStepSharesTheTransaction ==
    (call.status = "running" /\ ~(saver.pc = "returned" /\ saver.res = "True"))
        => \/ db = call.pre
           \/ saver.pc = "done"

\* The schema step added a column, a later statement failed and the handler is
\* reached: the added column is in no committed table
C14_SwapFailedAfterSchemaGrowth ==
    /\ call.status = "running"
    /\ saver.pc = "rollback"
    /\ TableExists(call.pre, call.dest)
    /\ SchemaStepActed
    /\ saver.failed

\* The store would accept the backup of the table: the creation of its backup
\* table where there is none, and the INSERT ... SELECT of its rows
BackupAccepted(cat, n, ts) ==
    SnapshotAccepted(create_backup_table_if_not_exists(cat, n), n, ts)

\* C15 (as stated): backup_all backs up every table whose name does not end in
\* the backup suffix; when every one of these backups is accepted it returns the
\* empty list, every such table has gained one snapshot of its rows in its
\* backup table, and no backup table has been backed up itself.
C15_BackupAllSnapshotsEveryTable ==
    (/\ Returned({"backup_all"})
     /\ bconn = "open"
     /\ \A n \in ListedTables(call.pre) : BackupAccepted(call.pre, n, now))
        => /\ call.errors = {}
           /\ \A n \in ListedTables(call.pre) : SnapshotCommitted(db, call.pre, n)
           /\ \A n \in DOMAIN call.pre \ ListedTables(call.pre) :
                  ~TableExists(db, BackupName(n))

\* A statement of the returned backup_data failed after the existence check of
\* the source
BackupFailedAfterCheck ==
    /\ Returned({"backup_data"})
    /\ TableExists(call.pre, call.dest)
    /\ call.msg = "Error"

\* C16 (as stated): backup_data is all-or-nothing: when a statement after the
\* existence check fails, it returns (False, error) and the committed state is
\* the one before the call: no partial snapshot, no new backup table.
C16_FailedBackupReturnsFalse ==
    BackupFailedAfterCheck => (call.result = "False" /\ db = call.pre)

\* The part of C16 the code keeps: a backup_data that does not succeed, however
\* it ends, commits nothing.
C16_FailedBackupChangesNothing ==
    (Returned({"backup_data"}) /\ call.result # "True") => db = call.pre

BothReturned == \A i \in Savers : pair[i].status = "running" /\ pair[i].r.pc = "returned"

SameDestination == pair[1].dest = pair[2].dest

Winners == {i \in Savers : pair[i].r.res = "True"}

\* After both savers returned, their common destination holds the rows of a
\* dataset whose call returned True (as stored), or what it held before when
\* neither did; a call that lost a conflict returned False
OneDatasetWon ==
    (BothReturned /\ SameDestination)
        => /\ \A i \in Savers : pair[i].r.res \in {"True", "False"}
           /\ \A i \in Savers : pair[i].lost => pair[i].r.res = "False"
           /\ IF Winners = {}
              THEN Observe(db, pair[1].dest) = Observe(pair[1].pre, pair[1].dest)
              ELSE \E i \in Winners : ConvertedRows(Observe(db, pair[1].dest), pair[i].data)

\* A saver that waits, waits for a transaction that has not ended: the other
\* saver can take a step, or waits as well and the store ends the deadlock
NeverStuck ==
    \A i \in Savers :
        Waits(i) => Running(pair[Other(i)])

\* C17: two save_data calls that run concurrently on connections of their own
\* against the same destination end, in every interleaving, with the
\* destination holding exactly the rows of one dataset whose call returned True,
\* never a mix or union; a call that loses a conflict at the store returns False
\* (nothing is retried), and no call waits for a transaction that has ended.
C17_ConcurrentSavesOneWins == OneDatasetWon /\ NeverStuck

\* C17, its last part as a liveness property of SpecPairFair: once the calls
\* are made, both return
C17_BothSavesReturn == (pair[1].status = "running") ~> BothReturned

\* Both savers stood at the swap of the same destination and waited for each
\* other; the store failed the statement of saver 1, which returned False, and
\* saver 2 went on to replace the destination with its dataset
C17_DeadlockLoserReturnedFalse ==
    /\ BothReturned /\ SameDestination
    /\ pair[1].lost /\ pair[1].r.res = "False"
    /\ pair[2].r.res = "True"
    /\ pair[1].data = DA /\ pair[2].data = DE
    /\ RowCount(pair[1].pre, TName) = 1
    /\ db[TName].rows = DE.rows

\* save_data(data, dest) at instant ts, run alone and undisturbed on the catalog
\* pre, the new columns added in the given order
Alone(pre, data, dest, ts, order) ==
    save_data(SaverIdle("open", "idle"), pre, data, dest, ts, TRUE, NoFault, order)

\* C18: concurrent save_data calls on different destinations proceed
\* independently: in every interleaving neither waits for the other, and each
\* returns what it would have returned alone and leaves its own destination with
\* the columns and rows it would have left alone.
C18_DifferentDestinationsIndependent ==
    ~SameDestination
        => /\ \A i \in Savers : ~Waits(i)
           /\ BothReturned =>
                \A i \in Savers :
                    \E order \in Orders(NewColumns(pair[i].pre, pair[i].dest, pair[i].data)) :
                        LET alone == Alone(pair[i].pre, pair[i].data, pair[i].dest,
                                           pair[i].ts, order)
                        IN /\ pair[i].r.res = alone.res
                           /\ Observe(db, pair[i].dest)
                                = Observe(Committed(pair[i].pre, alone), pair[i].dest)

\* In the same second one saver grew and replaced the existing destination t,
\* the other created and filled v; both returned True
C18_BothSavedTheirOwn ==
    /\ BothReturned
    /\ pair[1].dest = TName /\ pair[2].dest = VName
    /\ pair[1].ts = pair[2].ts
    /\ pair[1].data = DX /\ pair[2].data = DA
    /\ TableExists(pair[1].pre, TName)
    /\ Winners = Savers
    /\ db[TName].rows = DX.rows /\ db[VName].rows = DA.rows

-----------------------------------------------------------------------------
\* The dataset and the target table have the one column "a", of this type
TargetIs(data_type) ==
    /\ cast.df.columns = <<"a">>
    /\ cast.read = [raised |-> FALSE,
                    table_schema |-> <<[column_name |-> "a", data_type |-> data_type]>>]

\* The row labels auto_cast_to_sql reported as failures of column "a"
ReportedRows ==
    UNION {{cast.fails[j].rows[q] : q \in DOMAIN cast.fails[j].rows} :
              j \in {j \in DOMAIN cast.fails : cast.fails[j].column = "a"}}

\* C19 as stated: auto_cast_to_sql never raises and returns a dataset with the
\* rows (count and positions) and the columns of the one it was given, whatever
\* the values and whatever the schema read gave.
C19_CoercionNeverRaises ==
    cast.status = "returned" =>
        /\ ~cast.raised
        /\ cast.out.index = cast.df.index
        /\ cast.out.columns = cast.df.columns
        /\ \A c \in DOMAIN cast.df.data : Len(cast.out.data[c]) = Len(cast.df.data[c])

\* C20 as stated: in an integer column every non-null value that comes out
\* null was reported as a failure of its row.
C20_IntegerFailuresCounted ==
    (cast.status = "returned" /\ TargetIs("integer") /\ ~cast.raised) =>
        \A p \in DOMAIN cast.df.index :
            (cast.df.data["a"][p].k # "na" /\ cast.out.data["a"][p].k = "na")
                => cast.df.index[p] \in ReportedRows

\* The string with the rightmost of ',' and '.' written as the decimal point
\* and the other of the two removed
RightmostAsDecimal(chars) ==
    Replace(Without(chars, IF RFind(chars, ",") > RFind(chars, ".") THEN "." ELSE ","), ",", ".")

\* The one row {id: "1", price: "1.234,56", active: "yes"} was coerced against
\* integer / double precision / boolean
ScenarioCoerced ==
    /\ cast.status = "returned"
    /\ cast.df.columns = <<"id", "price", "active">>
    /\ cast.read.table_schema # << >>
    /\ \A j \in DOMAIN cast.read.table_schema :
          cast.read.table_schema[j].column_name = cast.df.columns[j]

\* C21: a string holding both ',' and '.' is read with the rightmost of the
\* two as the decimal separator and the other removed; the row {id: "1",
\* price: "1.234,56", active: "yes"} coerced against integer / floating-point /
\* boolean comes out as {1, 1234.56, true}, no failure reported.
C21_RightmostSeparatorIsDecimal ==
    /\ (cast.status = "returned" /\ TargetIs("double precision") /\ ~cast.raised) =>
          \A p \in DOMAIN cast.df.index :
              LET v == cast.df.data["a"][p]
              IN (v.k = "str" /\ Count(v.v, ",") > 0 /\ Count(v.v, ".") > 0)
                     => cast.out.data["a"][p]
                            = Number("float", ParseFloat(RightmostAsDecimal(v.v)))
    /\ ScenarioCoerced =>
          /\ ~cast.raised
          /\ cast.out.data["id"] = <<Number("int", Canonical(FALSE, <<"1">>, 0))>>
          /\ cast.out.data["price"]
                = <<Number("float", Canonical(FALSE, <<"1", "2", "3", "4", "5", "6">>, -2))>>
          /\ cast.out.data["active"] = <<Bool(TRUE)>>
          /\ \A j \in DOMAIN cast.fails : cast.fails[j].rows = << >>

\* The scenario row came out with price 1234.56 and active true, and each of
\* the three columns reported no failing row
C21_ScenarioRowCoerced ==
    /\ ScenarioCoerced
    /\ cast.out.data["price"]
          = <<Number("float", Canonical(FALSE, <<"1", "2", "3", "4", "5", "6">>, -2))>>
    /\ cast.out.data["active"] = <<Bool(TRUE)>>
    /\ cast.fails = <<[column |-> "id", rows |-> << >>], [column |-> "price", rows |-> << >>],
                      [column |-> "active", rows |-> << >>]>>

\* The comma of chars is followed by one or two digits that end the string
CommaBeforeLastDigits(chars) ==
    /\ Len(chars) - (RFind(chars, ",") + 1) \in {1, 2}
    /\ AllDigits(SubSeq(chars, RFind(chars, ",") + 2, Len(chars)))

\* C22 as stated: in a string with commas and no dot, a single comma followed
\* by one or two digits at the end is the decimal separator; in every other
\* case the commas are grouping and are removed, so that "1,234" is 1234.
C22_LoneCommaDecimalOnlyBeforeTwoDigits ==
    (cast.status = "returned" /\ TargetIs("double precision") /\ ~cast.raised) =>
        \A p \in DOMAIN cast.df.index :
            LET v == cast.df.data["a"][p]
            IN (v.k = "str" /\ Count(v.v, ",") > 0 /\ Count(v.v, ".") = 0)
                   => cast.out.data["a"][p]
                          = Number("float",
                                   ParseFloat(IF Count(v.v, ",") = 1 /\ CommaBeforeLastDigits(v.v)
                                              THEN Replace(v.v, ",", ".")
                                              ELSE Without(v.v, ",")))

\* What the membership test gives for one value: true for {true, t, yes, y, 1,
\* on}, false for {false, f, no, n, 0, off}, whatever the case and the spaces
\* around; null otherwise
MembershipTest(v) ==
    LET st == Lower(Strip(v.v))
    IN IF v.k = "na" THEN NA
       ELSE IF st \in {<<"t", "r", "u", "e">>, <<"t">>, <<"y", "e", "s">>, <<"y">>, <<"1">>,
                       <<"o", "n">>}
       THEN Bool(TRUE)
       ELSE IF st \in {<<"f", "a", "l", "s", "e">>, <<"f">>, <<"n", "o">>, <<"n">>, <<"0">>,
                       <<"o", "f", "f">>}
       THEN Bool(FALSE)
       ELSE NA

\* C23 as stated: in a boolean column every row holds what the membership test
\* gives for its value, and the rows reported as failures are those whose
\* value is not null and in neither set.
C23_BooleanIsMembershipTest ==
    (cast.status = "returned" /\ TargetIs("boolean") /\ ~cast.raised) =>
        \A p \in DOMAIN cast.df.index :
            LET v == cast.df.data["a"][p]
            IN /\ cast.out.data["a"][p] = MembershipTest(v)
               /\ cast.df.index[p] \in ReportedRows <=> (v.k # "na" /\ MembershipTest(v) = NA)

-----------------------------------------------------------------------------
\* Every column of the dataset is a column of the table, of the type the
\* dataset's column maps to
ColumnCompatible(cat, data, dest) ==
    /\ TableExists(cat, dest)
    /\ \A i \in DOMAIN data.cols :
          \E j \in DOMAIN cat[dest].cols :
              /\ cat[dest].cols[j].name = data.cols[i].name
              /\ cat[dest].cols[j].type = map_pandas_to_postgres_type(data.cols[i].dtype)

\* save_data(data, dest) called next, at instant ts, the store answering every
\* statement
SavedAgain(data, dest, ts) == save_data(saver, db, data, dest, ts, TRUE, NoFault, << >>)

FreshSaver == SaverIdle("open", "idle")

\* The saver's connection is reused while open: no operation needs the store
\* to accept a new connection
SaverReuses ==
    saver.conn = "open" =>
        /\ \A p \in Saves :
              /\ save_data(saver, db, p[1], p[2], now, FALSE, NoFault, << >>)
                    = save_data(saver, db, p[1], p[2], now, TRUE, NoFault, << >>)
              /\ save_data(saver, db, p[1], p[2], now, FALSE, NoFault, << >>).conn = "open"
        /\ \A source \in Sources :
              read_data(db, saver.conn, saver.tx, source, FALSE, NoFault)
                 = read_data(db, saver.conn, saver.tx, source, TRUE, NoFault)

\* A saver without an open connection opens one, and then works as a saver
\* just constructed; when the store accepts no connection the call fails
SaverReconnects ==
    saver.conn # "open" =>
        /\ \A p \in Saves :
              /\ save_data(saver, db, p[1], p[2], now, TRUE, NoFault, << >>)
                    = save_data(FreshSaver, db, p[1], p[2], now, FALSE, NoFault, << >>)
              /\ save_data(saver, db, p[1], p[2], now, FALSE, NoFault, << >>).res = "False"
              /\ save_data(saver, db, p[1], p[2], now, FALSE, NoFault, << >>).conn = saver.conn
        /\ \A source \in Sources :
              /\ read_data(db, saver.conn, saver.tx, source, TRUE, NoFault).conn = "open"
              /\ read_data(db, saver.conn, saver.tx, source, TRUE, NoFault).df
                    = IF TableExists(db, source) THEN Observe(db, source) ELSE NoObs
              /\ ~read_data(db, saver.conn, saver.tx, source, FALSE, NoFault).df.set

\* The same of the backup service
BackupReuses ==
    bconn = "open" =>
        \A source \in Sources :
            /\ backup_data(db, bconn, btx, source, now, FALSE, NoFault)
                  = backup_data(db, bconn, btx, source, now, TRUE, NoFault)
            /\ backup_data(db, bconn, btx, source, now, FALSE, NoFault).conn = "open"

BackupReconnects ==
    bconn # "open" =>
        \A source \in Sources :
            /\ backup_data(db, bconn, btx, source, now, TRUE, NoFault).conn = "open"
            /\ backup_data(db, bconn, btx, source, now, TRUE, NoFault)
                  = backup_data(db, "open", "active", source, now, FALSE, NoFault)
            /\ backup_data(db, bconn, btx, source, now, FALSE, NoFault).res = "False"
            /\ backup_data(db, bconn, btx, source, now, FALSE, NoFault).conn = bconn

\* C25: a saver or backup service has one connection, which get_connection
\* returns at every call while it is open; a new one is opened only when there
\* is none or it is closed (also closed because it was found dead), and the
\* operations then succeed as on a service just constructed.
C25_OneConnectionReused ==
    /\ saver.conn \in {"none", "open", "closed"}
    /\ bconn \in {"none", "open", "closed"}
    /\ SaverReuses
    /\ SaverReconnects
    /\ BackupReuses
    /\ BackupReconnects

C25_ClosedThenReestablished ==
    /\ saver.conn = "closed"
    /\ call.op = "save_data"
    /\ call.result = "raised"
    /\ TableExists(db, TName)
    /\ read_data(db, saver.conn, saver.tx, TName, TRUE, NoFault).conn = "open"
    /\ read_data(db, saver.conn, saver.tx, TName, TRUE, NoFault).df.set

-----------------------------------------------------------------------------
\* auto_cast_to_sql of the value alone: the dataset of one row, under the
\* default index, against the schema read of the call
CoercedAlone(v) ==
    auto_cast_to_sql(cast.read, [index |-> <<0>>, columns |-> <<"a">>,
                                 data |-> [c \in {"a"} |-> <<v>>]])

\* C26 as stated: a value of a dataset comes out as, and is classified as, the
\* same value does when it is coerced alone against the same target type,
\* whatever dataset and row it stands in.
C26_CoercionIsFunctionOfTypeAndValue ==
    (cast.status = "returned" /\ cast.df.columns = <<"a">> /\ ~cast.raised) =>
        \A p \in DOMAIN cast.df.index :
            LET alone == CoercedAlone(cast.df.data["a"][p])
            IN /\ cast.out.data["a"][p] = alone.df.data["a"][1]
               /\ cast.df.index[p] \in ReportedRows
                     <=> \E j \in DOMAIN alone.fails : alone.fails[j].rows # << >>

-----------------------------------------------------------------------------
\* The positions of the atomic replace, in the order of the source
SwapOrder == <<"shadow", "insert", "rename_old", "rename_new", "drop_old", "commit", "done">>

SwapRank(pc) == CHOOSE i \in DOMAIN SwapOrder : SwapOrder[i] = pc

InSwap(pc) == \E i \in DOMAIN SwapOrder : SwapOrder[i] = pc

\* What the saver's transaction holds when save_data stands at r.pc, for the
\* destination and the dataset of the call
SwapStage(r, data, dest) ==
    LET w == r.work
        old == OldName(r.temp)
    IN /\ r.pc = "insert" =>
             /\ TableExists(w, dest) /\ TableExists(w, r.temp) /\ ~TableExists(w, old)
             /\ w[r.temp].cols = w[dest].cols
             /\ w[r.temp].rows = << >>
       /\ r.pc = "rename_old" =>
             /\ TableExists(w, dest) /\ ~TableExists(w, old)
             /\ ConvertedRows(Observe(w, r.temp), data)
       /\ r.pc = "rename_new" =>
             /\ ~TableExists(w, dest) /\ TableExists(w, old)
             /\ ConvertedRows(Observe(w, r.temp), data)
       /\ r.pc = "drop_old" =>
             /\ ~TableExists(w, r.temp) /\ TableExists(w, old)
             /\ ConvertedRows(Observe(w, dest), data)
       /\ r.pc \in {"commit", "done"} =>
             /\ ~TableExists(w, r.temp) /\ ~TableExists(w, old)
             /\ ConvertedRows(Observe(w, dest), data)

\* C27: save_data goes through the replace one step after the other (shadow
\* created as an empty clone of the destination, rows inserted, destination
\* renamed to old_<shadow>, shadow renamed to the destination, old dropped,
\* commit) in one transaction: the destination is renamed only when the shadow
\* holds every row of the dataset, and nothing is committed before the drop.
C27_ReplaceStepsInOrder ==
    [][/\ (saver'.pc # saver.pc /\ InSwap(saver'.pc) /\ saver'.pc # "shadow") =>
             /\ InSwap(saver.pc)
             /\ SwapRank(saver'.pc) = SwapRank(saver.pc) + 1
       /\ SwapStage(saver', call'.data, call'.dest)
       /\ (InSwap(saver'.pc) /\ saver'.pc # "shadow") =>
             saver'.tx = IF saver'.pc = "done" THEN "idle" ELSE "active"
       /\ db' # db => saver.pc = "commit" /\ saver'.pc = "done" /\ db' = saver'.work]_vars

C27_ReplacedStepByStep ==
    /\ saver.pc = "done"
    /\ call.op = "save_data"
    /\ call.data = DX
    /\ TableExists(call.pre, TName)
    /\ call.pre[TName].rows # << >>
    /\ db # call.pre
    /\ ConvertedRows(Observe(db, TName), DX)

-----------------------------------------------------------------------------
\* The empty datasets, and save_data of one on the connection as it is
EmptyDatasets == {data \in Datasets : data.rows = << >>}

SavedEmpty(data, dest) == save_data(saver, db, data, dest, now, TRUE, NoFault, << >>)

\* C28: save_data of a dataset of zero rows on an existing table replaces it
\* all the same and returns True: the table is there afterwards with the columns
\* it had and no row, whatever rows it held.
C28_EmptyDatasetEmptiesTable ==
    /\ (Returned({"save_data"}) /\ call.result = "True" /\ call.data \in EmptyDatasets
           /\ TableExists(call.pre, call.dest)) =>
          /\ TableExists(db, call.dest)
          /\ db[call.dest].rows = << >>
          /\ db[call.dest].cols = call.pre[call.dest].cols
    /\ (call.status = "idle" /\ saver.tx # "aborted") =>
          \A data \in EmptyDatasets, dest \in DOMAIN db :
              ColumnCompatible(db, data, dest) =>
                  /\ SavedEmpty(data, dest).res = "True"
                  /\ Committed(db, SavedEmpty(data, dest))[dest] = [db[dest] EXCEPT !.rows = << >>]

C28_TableEmptied ==
    /\ Returned({"save_data"})
    /\ call.result = "True"
    /\ call.data = DE
    /\ call.dest = TName
    /\ TableExists(call.pre, TName)
    /\ call.pre[TName].rows # << >>
    /\ db[TName].rows = << >>
    /\ db[TName].cols = call.pre[TName].cols

-----------------------------------------------------------------------------
\* The names save_data gives to the shadow of a destination and to the
\* destination it has set aside
ShadowNames(dest) ==
    {TempName(dest, ts) : ts \in 0..MaxTime} \cup {OldName(TempName(dest, ts)) : ts \in 0..MaxTime}

\* C29: when save_data has returned, with True or, after a failure at whichever
\* step, without, no table named temp_<destination>_<timestamp> or
\* old_temp_<destination>_<timestamp> is in the committed schema.
C29_NoShadowOutlivesItsTransaction ==
    (call.op = "save_data" /\ (saver.pc = "returned" \/ call.status = "returned")) =>
        \A n \in DOMAIN db : n \notin ShadowNames(call.dest)

C29_FailedAfterShadowCreated ==
    /\ call.op = "save_data"
    /\ saver.pc = "returned"
    /\ saver.res = "False"
    /\ TableExists(saver.work, saver.temp)
    /\ saver.temp \in ShadowNames(call.dest)
    /\ ~TableExists(db, saver.temp)

-----------------------------------------------------------------------------
\* C30: a live table is never dropped: a destination that exists in the
\* committed schema exists in it after every step of every operation
\* (save_data, save_with_backup, backup_data, backup_all, read_data), whether
\* the operation succeeds or fails.
C30_LiveTableNeverDropped ==
    [][\A n \in DOMAIN db : ~LikeBackup(n) => TableExists(db', n)]_vars

C30_FailedSaveOnLiveTable ==
    /\ Returned(SaveOps)
    /\ call.result # "True"
    /\ calls = MaxCalls
    /\ TableExists(call.pre, TName)
    /\ call.pre[TName].rows # << >>
    /\ TableExists(db, TName)

-----------------------------------------------------------------------------
\* The step made a snapshot of the source: a backup_data of it that returned
\* True, a save_with_backup whose backup did, or a backup_all
SnapshotStep(source) ==
    /\ call'.status = "returned"
    /\ \/ call'.op = "backup_data" /\ call'.dest = source /\ call'.result = "True"
       \/ call'.op = "save_with_backup" /\ call'.dest = source /\ call'.bk = "True"
       \/ call'.op = "backup_all"

\* C31 as stated: the backup table of a source comes into existence only in a
\* step that backs the source up (or is saved to by name); no other step
\* creates it.
C31_BackupTableCreatedByFirstBackup ==
    [][\A source \in Sources :
          (~TableExists(db, BackupName(source)) /\ TableExists(db', BackupName(source))) =>
              \/ SnapshotStep(source)
              \/ call'.op = "save_data" /\ call'.dest = BackupName(source)]_vars

-----------------------------------------------------------------------------
\* The kind of the values a column of the dtype holds
DtypeKind(dtype) ==
    IF dtype \in {"int64", "int32", "int16", "Int64"} THEN "integer"
    ELSE IF dtype \in {"float64", "float32"} THEN "floating"
    ELSE IF dtype \in {"bool", "boolean"} THEN "boolean"
    ELSE IF dtype \in {"datetime64[ns]", "datetime64[ns, UTC]"} THEN "timestamp"
    ELSE "other"

StorageType(kind) ==
    CASE kind = "integer" -> "BIGINT"
      [] kind = "floating" -> "DOUBLE PRECISION"
      [] kind = "boolean" -> "BOOLEAN"
      [] kind = "timestamp" -> "TIMESTAMP"
      [] OTHER -> "TEXT"

\* The columns the call created or added to its destination
DeclaredBy(pre, cat, dest) ==
    {j \in DOMAIN cat[dest].cols :
        ~TableExists(pre, dest) \/ cat[dest].cols[j].name \notin NameSet(pre[dest].cols)}

\* C32 as stated: every column a save_data created or added is declared with
\* the storage type of the kind of the dataset's column (integer, floating,
\* boolean, timestamp, else text), and is not declared NOT NULL.
C32_TypeInferredFromKind ==
    (Returned({"save_data"}) /\ call.result = "True") =>
        \A j \in DeclaredBy(call.pre, db, call.dest) :
            LET c == db[call.dest].cols[j]
            IN /\ c.type = StorageType(DtypeKind(
                              call.data.cols[ColIndex(call.data.cols, c.name)].dtype))
               /\ ~c.notnull

-----------------------------------------------------------------------------
\* C33 as stated: two save_data calls on the same destination that run at the
\* same time name their shadow tables (and with them their old tables)
\* differently, and neither waits for a name the other's transaction wrote.
C33_ShadowNamesUnique ==
    (SameDestination /\ \A i \in Savers : pair[i].r.temp # NoTemp) =>
        /\ pair[1].r.temp # pair[2].r.temp
        /\ OldName(pair[1].r.temp) # OldName(pair[2].r.temp)
        /\ \A i \in Savers : ~(Waits(i) /\ ~NamesFree(i))

-----------------------------------------------------------------------------
\* backup_data of the source on a healthy connection, no statement failing
BackedUpNow(source) == backup_data(db, "open", "idle", source, now, TRUE, NoFault)

\* C34 as stated: whatever saves and backups of T have succeeded, T's backup
\* table has T's current columns followed by backup_timestamp, backup_year and
\* backup_week, and a backup_data of T then returns True and appends one row
\* for each row of T.
C34_BackupFollowsSourceSchema ==
    (call.status = "idle" /\ ~ledger.direct
        /\ TableExists(db, TName) /\ TableExists(db, BackupName(TName))) =>
        /\ db[BackupName(TName)].cols = db[TName].cols \o BackupMetaCols
        /\ BackedUpNow(TName).res = "True"
        /\ Len(BackedUpNow(TName).cat[BackupName(TName)].rows)
              = Len(db[BackupName(TName)].rows) + Len(db[TName].rows)

-----------------------------------------------------------------------------
\* C35 as stated: when save_data, read_data or save_with_backup has returned,
\* with a result or with a failure, the saver's connection has no transaction
\* open or aborted, and a save_data that follows does what it does on a saver
\* just constructed.
C35_NoTransactionLeftBehind ==
    (Returned({"save_data", "read_data", "save_with_backup"}) /\ saver.conn = "open") =>
        /\ saver.tx = "idle"
        /\ \A data \in Datasets :
              save_data(saver, db, data, TName, now, TRUE, NoFault, << >>).res
                 = save_data(FreshSaver, db, data, TName, now, TRUE, NoFault, << >>).res

-----------------------------------------------------------------------------
\* The tables the call may write: its destination, and for save_with_backup
\* the destination's backup table; for backup_data the source's backup table
FrameOf(c) ==
    CASE c.op = "save_data" -> {c.dest}
      [] c.op = "save_with_backup" -> {c.dest, BackupName(c.dest)}
      [] c.op = "backup_data" -> {BackupName(c.dest)}
      [] OTHER -> {}

\* C36 as stated: a save_data, save_with_backup or backup_data that has
\* returned, with success or failure, has left every table outside its frame
\* as it was and has created none.
C36_SaveFrame ==
    Returned({"save_data", "save_with_backup", "backup_data"}) =>
        \A n \in (DOMAIN db \cup DOMAIN call.pre) \ FrameOf(call) :
            /\ n \in DOMAIN call.pre
            /\ n \in DOMAIN db
            /\ db[n] = call.pre[n]

-----------------------------------------------------------------------------
\* The ISO year (date.isocalendar()[0]) of the dates of Instants: 2024-12-30
\* lies in week 1 of 2025, 2025-12-29 in week 1 of 2026
IsoYear == <<"2024", "2025", "2025", "2026">>

\* The backup metadata of a row of the backup table of TName
Tagged(row) ==
    LET cols == db[BackupName(TName)].cols
        at == row[ColIndex(cols, "backup_timestamp")]
    IN [instant |-> CHOOSE t \in 0..MaxTime : at = TsV(t),
        year |-> row[ColIndex(cols, "backup_year")].v,
        week |-> row[ColIndex(cols, "backup_week")].v]

\* C37 as stated: every backup row has a week of 1..53 and the year of its
\* timestamp, and two rows carry the same (year, week) only when their
\* timestamps lie in the same ISO week.
C37_TimePartitionWellFormed ==
    TableExists(db, BackupName(TName)) =>
        LET rows == db[BackupName(TName)].rows
        IN \A i, k \in DOMAIN rows :
              LET r == Tagged(rows[i])
                  s == Tagged(rows[k])
              IN /\ r.week \in {ToString(w) : w \in 1..53}
                 /\ r.year = Instants[r.instant + 1].year
                 /\ (r.year = s.year /\ r.week = s.week) =>
                       /\ IsoYear[r.instant + 1] = IsoYear[s.instant + 1]
                       /\ Instants[r.instant + 1].week = Instants[s.instant + 1].week

-----------------------------------------------------------------------------
\* The characters a-z, 0-9 and '_'
NameChars ==
    Digit \cup {"_", "a", "b", "c", "d", "e", "f", "g", "h", "i", "j", "k", "l", "m",
                "n", "o", "p", "q", "r", "s", "t", "u", "v", "w", "x", "y", "z"}

\* C38: for every header and index, the name clean_column_name returns is not
\* empty, is made only of the characters a-z, 0-9 and '_', starts with a
\* letter or an underscore and is not a PostgreSQL reserved word.
C38_CleanNameWellFormed ==
    column.status = "returned" =>
        /\ column.cleaned # << >>
        /\ \A i \in DOMAIN column.cleaned : column.cleaned[i] \in NameChars
        /\ column.cleaned[1] \notin Digit
        /\ column.cleaned \notin POSTGRES_RESERVED

-----------------------------------------------------------------------------
\* C39: CSVDataSaver.save_data replaces the destination file atomically: a
\* destination file that was there when save_data was called is there at
\* every point of the save and after it, whole, with the old lines or with
\* the new ones; and when save_data returns False it has the old lines.
C39_CsvReplacedAtomically ==
    (csv.pc # "idle" /\ csv.file_path \in DOMAIN csv.pre) =>
        /\ csv.file_path \in DOMAIN csv.files
        /\ csv.files[csv.file_path] \in {csv.pre[csv.file_path], to_csv(csv.data)}
        /\ csv.res = "False" => csv.files[csv.file_path] = csv.pre[csv.file_path]
=============================================================================
